---- MODULE Spec2Model ----
(***************************************************************************)
(* A model of the ratings service: the validation pipeline engine          *)
(* (internal/models/helpers.go), the rating, user and role validators,     *)
(* the credential and token service (internal/models/users.go), the wire   *)
(* form of Permissions and the authentication and permission middleware    *)
(* (internal/middleware/auth.go).                                          *)
(*                                                                         *)
(* Eleven specifications share the variables: SpecPipeline runs the engine *)
(* on abstract pipelines, SpecRatings the rating service, SpecLogin the    *)
(* credential check next to user updates, SpecSessions the token life      *)
(* cycle, SpecGate the middleware of a restricted route, SpecPermissions   *)
(* the JSON form of Permissions, SpecRoles the role service,               *)
(* SpecConcurrent two Create calls in flight, SpecWrites one call of each  *)
(* validator operation, SpecUpdates two user Updates in flight and         *)
(* SpecRegate the restricted route while roles change.                     *)
(*                                                                         *)
(* Every service call is one action, except in SpecConcurrent and          *)
(* SpecUpdates, where a call is two: its pipeline and its repository       *)
(* call.  The variables hold the storage                                   *)
(* (users, roles, ratings), the next value of its id sequences (seq), the  *)
(* tokens minted so far, the clock (now, in minutes, and the number of     *)
(* steps it has taken, ticks), and an observation of the last call: what   *)
(* was asked (call), what it returned (ret) and which collaborators it     *)
(* reached (fx).  route is the restricted route the web server installed:  *)
(* the permissions its Can decorator requires.                             *)
(***************************************************************************)
EXTENDS Integers, Sequences, FiniteSets, TLC

VARIABLES users, roles, ratings, seq, tokens, now, ticks, route, call, ret, fx

vars == <<users, roles, ratings, seq, tokens, now, ticks, route, call, ret, fx>>

(***************************************************************************)
(* Errors.  A Go error value is a record: kind is "nil", "ModelError",     *)
(* "MiddlewareError", "ValidationError" or "private"; code is the public   *)
(* code (or the message of a private error); fields is the field -> code   *)
(* map of a ValidationError; wraps is the code of the ModelError a private *)
(* error wraps with %w ("" when none).                                     *)
(***************************************************************************)
NoFields == [k \in {} |-> ""]

Nil == [kind |-> "nil", code |-> "", fields |-> NoFields, wraps |-> ""]

ModelError(c) == [kind |-> "ModelError", code |-> c, fields |-> NoFields, wraps |-> ""]

ValidationError(m) ==
    [kind |-> "ValidationError", code |-> "validation_error", fields |-> m, wraps |-> ""]

privateError(msg, cause) ==
    [kind |-> "private", code |-> msg, fields |-> NoFields,
     wraps |-> IF cause.kind = "ModelError" THEN cause.code ELSE cause.wraps]

wrap(msg, cause) == privateError(msg, cause)

ErrNotFound == ModelError("not_found")
ErrReadOnly == ModelError("read_only")
ErrUnauthorised == ModelError("unauthorised")
ErrTooShort == ModelError("too_short")
ErrTooLong == ModelError("too_long")
ErrRequired == ModelError("required")
ErrInvalid == ModelError("invalid")
ErrDuplicate == ModelError("is_duplicate")
ErrRefNotFound == ModelError("reference_not_found")
ErrNoCredentials == ModelError("credentials_not_provided")
ErrRefreshInvalid == ModelError("invalid_refresh_token")
ErrRefreshExpired == ModelError("expired_refresh_token")
ErrPasswordIncorrect == ModelError("incorrect_password")

\* err.(PublicError): ModelError and ValidationError both have Public().
IsPublicError(e) == e.kind \in {"ModelError", "MiddlewareError", "ValidationError"}

\* xerrors.As(err, &ModelError("")): err is a ModelError or wraps one.
AsModelError(e) == e.kind = "ModelError" \/ (e.kind = "private" /\ e.wraps # "")

\* xerrors.Is(err, target) for a ModelError target.
IsModelError(e, target) ==
    \/ e = target
    \/ e.kind = "private" /\ e.wraps = target.code

\* ValidationError.Is: every field of the target is in v with the same code.
ValidationErrorIs(v, target) ==
    /\ v.kind = "ValidationError"
    /\ target.kind = "ValidationError"
    /\ \A k \in DOMAIN target.fields :
          k \in DOMAIN v.fields /\ v.fields[k] = target.fields[k]

(***************************************************************************)
(* The validation pipeline engine.  A step is [field, fn, out]: field is   *)
(* the tag its wrapper returns, fn names the validation function, and out  *)
(* is what an "abstract" function returns (the named ones compute their    *)
(* result from the value).  A pipeline state st is [v, cx]: the value      *)
(* being validated and the data the closures captured.                     *)
(***************************************************************************)
Step(field, fn) == [field |-> field, fn |-> fn, out |-> Nil]

AbstractStep(field, out) == [field |-> field, fn |-> "abstract", out |-> out]

(***************************************************************************)
(* Storage.  users, roles and ratings map the ids of the stored rows to    *)
(* the rows; seq holds the next value of each bigserial sequence.          *)
(***************************************************************************)
\* A stored password is a bcrypt hash, a submitted one is plain text.
Plain(p) == [bcrypt |-> FALSE, text |-> p]

NilRole == [nil |-> TRUE, ID |-> 0, Label |-> <<>>, Permissions |-> 0]

\* User{}: the zero value.  FirstName and Settings are kept as their lengths;
\* LastName, which nothing reads, is left out.
ZeroUser ==
    [ID |-> 0, Active |-> FALSE, Email |-> <<>>, FirstName |-> 0,
     Password |-> Plain(""), RoleID |-> 0, Role |-> NilRole, Settings |-> 0]

\* (*User)(nil), and the caller a request carries: &User{ID, RoleID}.
NilUser == [nil |-> TRUE, ID |-> 0, RoleID |-> 0]

Caller(id, rid) == [nil |-> FALSE, ID |-> id, RoleID |-> rid]

\* Rating{}: Comment and Extra are kept as their lengths; Active and
\* Anonymous, which nothing reads, are left out.
ZeroRating ==
    [ID |-> 0, Comment |-> 0, Date |-> 0, Extra |-> 0, Score |-> 0, Target |-> 0,
     UserID |-> 0, User |-> NilUser]

\* bcrypt.GenerateFromPassword: the hash of plain text p.
bcryptHash(p) == [bcrypt |-> TRUE, text |-> p]

\* The model's width of a Permissions value (an int64 in the code):
\* Permissions(-1), every bit set, is 2^PermWidth - 1.
PermWidth == 4

AllPermissions == 2 ^ PermWidth - 1

\* createDefaultValues: the two fixed roles and the fixed admin user.
DefaultRoles ==
    (1 :> [ID |-> 1, Label |-> <<"a", "d", "m", "i", "n">>, Permissions |-> AllPermissions])
        @@ (2 :> [ID |-> 2, Label |-> <<"u", "s", "e", "r">>, Permissions |-> 0])

AdminEmail == <<"a", "d", "m", "i", "n", "@", "a", "d", "m", "i", "n", ".", "c", "o", "m">>

AdminUser ==
    [ID |-> 1, Active |-> TRUE, Email |-> AdminEmail, FirstName |-> 5,
     Password |-> bcryptHash("admin's password"), RoleID |-> 1, Role |-> NilRole,
     Settings |-> 0]

\* roleGorm.ByID as the Preload("Role") of a user query sees it.
PreloadRole(rid) ==
    IF rid \in DOMAIN roles
    THEN [nil |-> FALSE, ID |-> rid, Label |-> roles[rid].Label,
          Permissions |-> roles[rid].Permissions]
    ELSE NilRole

userGormByID(id) ==
    IF id \in DOMAIN users
    THEN [user |-> [users[id] EXCEPT !.Role = PreloadRole(users[id].RoleID)], err |-> Nil]
    ELSE [user |-> ZeroUser, err |-> ErrNotFound]

\* userService.ByID: the validator's (the repository's) answer, password cleared.
userServiceByID(id) ==
    LET r == userGormByID(id) IN
    [user |-> [r.user EXCEPT !.Password = Plain("")], err |-> r.err]

ratingGormByID(id) ==
    IF id \in DOMAIN ratings
    THEN [rating |-> ratings[id], err |-> Nil]
    ELSE [rating |-> ZeroRating, err |-> ErrNotFound]

(***************************************************************************)
(* The rating validators.  Each takes the pipeline state [v, cx] (the      *)
(* rating, and the ratingValWithDBData the closures share) and gives the   *)
(* state it leaves and the error it returns.                               *)
(***************************************************************************)
Ok(st) == [st |-> st, err |-> Nil]

Fail(st, e) == [st |-> st, err |-> e]

rating_idSetToZero(st) == Ok([st EXCEPT !.v.ID = 0])

rating_setDate(st) == Ok([st EXCEPT !.v.Date = now])

targetRequired(st) == IF st.v.Target = 0 THEN Fail(st, ErrRequired) ELSE Ok(st)

targetInvalid(st) == IF st.v.Target < 1 THEN Fail(st, ErrInvalid) ELSE Ok(st)

scoreRequired(st) == IF st.v.Score = 0 THEN Fail(st, ErrRequired) ELSE Ok(st)

commentLength(st) == IF st.v.Comment > 512 THEN Fail(st, ErrTooLong) ELSE Ok(st)

extraLength(st) == IF st.v.Extra > 512 THEN Fail(st, ErrTooLong) ELSE Ok(st)

userSessionExists(st) ==
    IF st.v.User.nil
    THEN Fail(st, wrap("session user does not exist", ErrRequired))
    ELSE Ok(st)

userSessionInvalid(st) ==
    IF st.v.User.ID < 1
    THEN Fail(st, wrap("session user is invalid", ErrInvalid))
    ELSE Ok(st)

rating_fetchUser(st) ==
    LET r == userServiceByID(st.v.User.ID) IN
    [st |-> [st EXCEPT !.cx.sessionUser = r.user], err |-> r.err]

fetchRating(st) ==
    LET r == ratingGormByID(st.v.ID) IN
    [st |-> [st EXCEPT !.cx.dbRating = r.rating], err |-> r.err]

userIsOwner_OrAdmin(st) ==
    IF st.cx.dbRating.UserID # st.cx.sessionUser.ID /\ st.v.User.RoleID # 1
    THEN Fail(st, ErrReadOnly)
    ELSE Ok(st)

userIsOwner(st) ==
    IF st.cx.dbRating.UserID # st.cx.sessionUser.ID
    THEN Fail(st, ErrReadOnly)
    ELSE Ok(st)

setDatabaseRatingDefaults_Keep(st) == Ok(st)

setDatabaseRatingDefaults(st) == Ok([st EXCEPT !.v.Target = st.cx.dbRating.Target])

setSessionUserAsUserID_Trusting(st) == Ok(st)

setSessionUserAsUserID(st) == Ok([st EXCEPT !.v.UserID = st.cx.sessionUser.ID])

AdminRoleID == 1

userIsOwnerOrAdmin_OwnerOnly(st) ==
    IF st.cx.dbRating.UserID # st.cx.sessionUser.ID
    THEN Fail(st, ErrReadOnly)
    ELSE Ok(st)

userIsOwnerOrAdmin(st) ==
    IF st.cx.dbRating.UserID # st.cx.sessionUser.ID /\ st.v.User.RoleID # AdminRoleID
    THEN Fail(st, ErrReadOnly)
    ELSE Ok(st)

(***************************************************************************)
(* Strings.  An e-mail address is a sequence of one-character strings.     *)
(***************************************************************************)
LowerLetters ==
    <<"a", "b", "c", "d", "e", "f", "g", "h", "i", "j", "k", "l", "m",
      "n", "o", "p", "q", "r", "s", "t", "u", "v", "w", "x", "y", "z">>

Digits == <<"0", "1", "2", "3", "4", "5", "6", "7", "8", "9">>

Range(s) == {s[i] : i \in DOMAIN s}

\* strings.ToLower
ToLower(s) ==
    LET upper == <<"A", "B", "C", "D", "E", "F", "G", "H", "I", "J", "K", "L", "M",
                   "N", "O", "P", "Q", "R", "S", "T", "U", "V", "W", "X", "Y", "Z">>
    IN
    [i \in DOMAIN s |->
        IF s[i] \in Range(upper)
        THEN LowerLetters[CHOOSE k \in DOMAIN upper : upper[k] = s[i]]
        ELSE s[i]]

\* strings.TrimSpace: without the leading and the trailing white space.
TrimSpace(s) ==
    LET inked == {i \in DOMAIN s : s[i] \notin {" ", "\t", "\n", "\r"}} IN
    IF inked = {} THEN <<>>
    ELSE SubSeq(s, CHOOSE i \in inked : \A j \in inked : i <= j,
                   CHOOSE i \in inked : \A j \in inked : i >= j)

\* uv.emailRegex: ^[a-z0-9._%+\-]+@[a-z0-9._\-]+\.[a-z0-9._\-]{2,16}$
emailRegexMatch(s) ==
    LET host == Range(LowerLetters) \cup Range(Digits) \cup {".", "_", "-"}
        name == host \cup {"%", "+"}
    IN
    \E a \in DOMAIN s : \E d \in DOMAIN s :
        /\ s[a] = "@" /\ a > 1 /\ \A i \in 1..(a - 1) : s[i] \in name
        /\ s[d] = "." /\ d > a + 1 /\ \A i \in (a + 1)..(d - 1) : s[i] \in host
        /\ Len(s) - d >= 2 /\ Len(s) - d <= 16 /\ \A i \in (d + 1)..Len(s) : s[i] \in host

(***************************************************************************)
(* The user repository (userGorm).                                         *)
(***************************************************************************)
userGormByEmail(e) ==
    IF \E id \in DOMAIN users : users[id].Email = e
    THEN LET id == CHOOSE k \in DOMAIN users : users[k].Email = e IN
         [user |-> [users[id] EXCEPT !.Role = PreloadRole(users[id].RoleID)], err |-> Nil]
    ELSE [user |-> ZeroUser, err |-> ErrNotFound]

\* The row a user value is stored as: user.Role is not a column.
UserRow(u) == [u EXCEPT !.Role = NilRole]

\* userGorm.Update: UPDATE ... WHERE id = u.ID with every column of u.
userGormUpdate(u) ==
    IF u.ID \notin DOMAIN users
    THEN [err |-> ErrNotFound, users |-> users]
    ELSE IF \E k \in DOMAIN users \ {u.ID} : users[k].Email = u.Email
    THEN [err |-> ValidationError("email" :> "is_duplicate"), users |-> users]
    ELSE IF u.RoleID \notin DOMAIN roles
    THEN [err |-> ValidationError("roleId" :> "reference_not_found"), users |-> users]
    ELSE [err |-> Nil, users |-> [users EXCEPT ![u.ID] = UserRow(u)]]

userGormCreate_NoUniqueIndex(u) ==
    IF u.RoleID \notin DOMAIN roles
    THEN [err |-> ValidationError("roleId" :> "reference_not_found"), users |-> users]
    ELSE [err |-> Nil, users |-> users @@ (seq.users :> [UserRow(u) EXCEPT !.ID = seq.users])]

\* userGorm.Create: INSERT with the next value of users_id_seq; users_email_key
\* is the unique constraint on email.
userGormCreate(u) ==
    IF \E k \in DOMAIN users : users[k].Email = u.Email
    THEN [err |-> ValidationError("email" :> "is_duplicate"), users |-> users]
    ELSE IF u.RoleID \notin DOMAIN roles
    THEN [err |-> ValidationError("roleId" :> "reference_not_found"), users |-> users]
    ELSE [err |-> Nil, users |-> users @@ (seq.users :> [UserRow(u) EXCEPT !.ID = seq.users])]

\* userGorm.Delete: DELETE ... WHERE id = id.
userGormDelete(id) ==
    IF \E k \in DOMAIN ratings : ratings[k].UserID = id
    THEN [err |-> wrap("could not delete user by id", Nil), users |-> users]
    ELSE IF id \notin DOMAIN users
    THEN [err |-> ErrNotFound, users |-> users]
    ELSE [err |-> Nil, users |-> [k \in DOMAIN users \ {id} |-> users[k]]]

(***************************************************************************)
(* The user validators, on the pipeline state [v, cx]: the user, and the   *)
(* userValWithCurrent the closures share (cx.current).                     *)
(***************************************************************************)
user_fetchUser(st) ==
    LET r == userGormByID(st.v.ID) IN
    [st |-> [st EXCEPT !.cx.current = r.user], err |-> r.err]

user_idSetToZero(st) == Ok([st EXCEPT !.v.ID = 0])

\* uv.emailIsTaken: the advisory look-up before the INSERT.
uv_emailIsTaken(st) ==
    IF userGormByEmail(st.v.Email).err = Nil THEN Fail(st, ErrDuplicate) ELSE Ok(st)

uc_emailIsTaken(st) ==
    IF st.cx.current.Email # st.v.Email
    THEN LET cu == userGormByEmail(st.v.Email) IN
         IF cu.err = Nil /\ st.v.ID # 0 /\ st.v.ID # cu.user.ID
         THEN Fail(st, ErrDuplicate) ELSE Ok(st)
    ELSE Ok(st)

preservePassword_Blank(st) == Ok(st)

preservePassword(st) ==
    IF st.v.Password = Plain("")
    THEN Ok([st EXCEPT !.v.Password = st.cx.current.Password])
    ELSE Ok(st)

user_idNotAdmin_Open(st) == Ok(st)

user_idNotAdmin(st) == IF st.v.ID = 1 THEN Fail(st, ErrReadOnly) ELSE Ok(st)

passwordRequired(st) == IF st.v.Password = Plain("") THEN Fail(st, ErrRequired) ELSE Ok(st)

passwordLength(st) ==
    IF st.v.Password # Plain("") /\ Len(st.v.Password.text) < 8
    THEN Fail(st, ErrTooShort) ELSE Ok(st)

passwordHash_Plain(st) == Ok(st)

passwordHash(st) ==
    IF st.v.Password = Plain("") THEN Ok(st)
    ELSE Ok([st EXCEPT !.v.Password = bcryptHash(st.v.Password.text)])

normaliseEmail(st) == Ok([st EXCEPT !.v.Email = TrimSpace(ToLower(st.v.Email))])

emailRequired(st) == IF st.v.Email = <<>> THEN Fail(st, ErrRequired) ELSE Ok(st)

emailFormat(st) ==
    IF st.v.Email = <<>> THEN Ok(st)
    ELSE IF ~emailRegexMatch(st.v.Email) THEN Fail(st, ErrInvalid) ELSE Ok(st)

firstNameRequired(st) == IF st.v.FirstName = 0 THEN Fail(st, ErrRequired) ELSE Ok(st)

firstNameLength(st) ==
    IF st.v.FirstName < 2 THEN Fail(st, ErrTooShort) ELSE Ok(st)

settingsLength(st) ==
    IF st.v.Settings > 8192 THEN Fail(st, ErrTooLong) ELSE Ok(st)

roleIDExists(st) ==
    IF st.v.RoleID \notin DOMAIN roles THEN Fail(st, ErrRefNotFound) ELSE Ok(st)

(***************************************************************************)
(* The role validators, on the pipeline state [v, cx], v being the role.   *)
(***************************************************************************)
\* strings.Join(strings.Fields(s), " "): the words of s, one space between.
RECURSIVE joinFields(_)
joinFields(s) ==
    LET space == {" ", "\t", "\n", "\r"} IN
    IF s = <<>> THEN <<>>
    ELSE IF s[1] \in space
    THEN (IF Len(s) = 1 \/ s[2] \in space THEN <<>> ELSE <<" ">>) \o joinFields(Tail(s))
    ELSE <<s[1]>> \o joinFields(Tail(s))

role_idSetToZero(st) == Ok([st EXCEPT !.v.ID = 0])

isNotAdmin(st) ==
    IF st.v.Label = <<"a", "d", "m", "i", "n">> THEN Fail(st, ErrDuplicate) ELSE Ok(st)

isNotUser(st) ==
    IF st.v.Label = <<"u", "s", "e", "r">> THEN Fail(st, ErrDuplicate) ELSE Ok(st)

role_idNotAdmin_Open(st) == Ok(st)

role_idNotAdmin(st) == IF st.v.ID = 1 THEN Fail(st, ErrReadOnly) ELSE Ok(st)

idNotUser(st) == IF st.v.ID = 2 THEN Fail(st, ErrReadOnly) ELSE Ok(st)

labelRequired(st) == IF st.v.Label = <<>> THEN Fail(st, ErrRequired) ELSE Ok(st)

normaliseLabel(st) ==
    Ok([st EXCEPT !.v.Label = joinFields(TrimSpace(ToLower(st.v.Label)))])

labelLength(st) ==
    IF st.v.Label # <<>> /\ Len(st.v.Label) < 4 THEN Fail(st, ErrTooShort) ELSE Ok(st)

\* The value of a step's function applied to the pipeline state: the state it
\* leaves and the error it returns.
CallStep(s, st) ==
    CASE s.fn = "abstract" -> [st |-> st, err |-> s.out]
      [] s.fn = "rating.idSetToZero" -> rating_idSetToZero(st)
      [] s.fn = "rating.setDate" -> rating_setDate(st)
      [] s.fn = "targetRequired" -> targetRequired(st)
      [] s.fn = "targetInvalid" -> targetInvalid(st)
      [] s.fn = "scoreRequired" -> scoreRequired(st)
      [] s.fn = "commentLength" -> commentLength(st)
      [] s.fn = "extraLength" -> extraLength(st)
      [] s.fn = "userSessionExists" -> userSessionExists(st)
      [] s.fn = "userSessionInvalid" -> userSessionInvalid(st)
      [] s.fn = "rating.fetchUser" -> rating_fetchUser(st)
      [] s.fn = "fetchRating" -> fetchRating(st)
      [] s.fn = "userIsOwner" -> userIsOwner(st)
      [] s.fn = "setDatabaseRatingDefaults" -> setDatabaseRatingDefaults(st)
      [] s.fn = "setSessionUserAsUserID" -> setSessionUserAsUserID(st)
      [] s.fn = "userIsOwnerOrAdmin" -> userIsOwnerOrAdmin(st)
      [] s.fn = "user.fetchUser" -> user_fetchUser(st)
      [] s.fn = "uc.emailIsTaken" -> uc_emailIsTaken(st)
      [] s.fn = "preservePassword" -> preservePassword(st)
      [] s.fn = "user.idNotAdmin" -> user_idNotAdmin(st)
      [] s.fn = "passwordRequired" -> passwordRequired(st)
      [] s.fn = "passwordLength" -> passwordLength(st)
      [] s.fn = "passwordHash" -> passwordHash(st)
      [] s.fn = "normaliseEmail" -> normaliseEmail(st)
      [] s.fn = "emailRequired" -> emailRequired(st)
      [] s.fn = "emailFormat" -> emailFormat(st)
      [] s.fn = "firstNameRequired" -> firstNameRequired(st)
      [] s.fn = "firstNameLength" -> firstNameLength(st)
      [] s.fn = "settingsLength" -> settingsLength(st)
      [] s.fn = "roleIDExists" -> roleIDExists(st)
      [] s.fn = "user.idSetToZero" -> user_idSetToZero(st)
      [] s.fn = "uv.emailIsTaken" -> uv_emailIsTaken(st)
      [] s.fn = "role.idSetToZero" -> role_idSetToZero(st)
      [] s.fn = "isNotAdmin" -> isNotAdmin(st)
      [] s.fn = "isNotUser" -> isNotUser(st)
      [] s.fn = "role.idNotAdmin" -> role_idNotAdmin(st)
      [] s.fn = "idNotUser" -> idNotUser(st)
      [] s.fn = "labelRequired" -> labelRequired(st)
      [] s.fn = "normaliseLabel" -> normaliseLabel(st)
      [] s.fn = "labelLength" -> labelLength(st)

fieldHasNoError_Always(ve, field) == TRUE

sessionAborts_Never(err) == FALSE

\* helpers.go:59  if len(ve) == 0
sessionMayRun(ve) == DOMAIN ve = {}

\* helpers.go:62  if err := rerr[0].Interface(); err != nil { return err }
sessionAborts(err) == err.kind # "nil"

\* helpers.go:71  if ve[field] == nil
fieldHasNoError(ve, field) == field \notin DOMAIN ve

fieldAborts_Never(err) == FALSE

\* helpers.go:76-87  the private errors (the default case) leave the loop
fieldAborts(err) == err.kind # "nil" /\ ~IsPublicError(err)

\* helpers.go:77-83  merge a nested map under "<field>.<k>", or record the
\* public error under the field; an assignment replaces what the key held.
mergeFieldError(ve, field, err) ==
    CASE err.kind = "nil" -> ve
      [] err.kind = "ValidationError" ->
            [k \in {field \o "." \o n : n \in DOMAIN err.fields} \cup DOMAIN ve |->
                IF \E n \in DOMAIN err.fields : k = field \o "." \o n
                THEN err.fields[CHOOSE n \in DOMAIN err.fields : k = field \o "." \o n]
                ELSE ve[k]]
      [] OTHER -> [k \in {field} \cup DOMAIN ve |-> IF k = field THEN err.code ELSE ve[k]]

\* helpers.go:92-96
pipelineResult(ve) == IF DOMAIN ve # {} THEN ValidationError(ve) ELSE Nil

\* helpers.go:51-90: the loop from step i on.  calls lists the steps whose
\* function was invoked, in order.
RECURSIVE runFrom(_, _, _, _, _)
runFrom(fns, i, st, ve, calls) ==
    IF i > Len(fns)
    THEN [err |-> pipelineResult(ve), st |-> st, calls |-> calls, ve |-> ve]
    ELSE LET s == fns[i] IN
         IF s.field = ""
         THEN IF sessionMayRun(ve)
              THEN LET r == CallStep(s, st) IN
                   IF sessionAborts(r.err)
                   THEN [err |-> r.err, st |-> r.st, calls |-> Append(calls, i), ve |-> ve]
                   ELSE runFrom(fns, i + 1, r.st, ve, Append(calls, i))
              ELSE runFrom(fns, i + 1, st, ve, calls)
         ELSE IF fieldHasNoError(ve, s.field)
              THEN LET r == CallStep(s, st) IN
                   IF fieldAborts(r.err)
                   THEN [err |-> r.err, st |-> r.st, calls |-> Append(calls, i), ve |-> ve]
                   ELSE runFrom(fns, i + 1, r.st, mergeFieldError(ve, s.field, r.err),
                                Append(calls, i))
              ELSE runFrom(fns, i + 1, st, ve, calls)

runValidationFunctions(value, fns) == runFrom(fns, 1, value, NoFields, <<>>)

(***************************************************************************)
(* The engine on its own: pipelines of abstract steps.                     *)
(***************************************************************************)
MaxSteps == 3

PipelineFields == {"a", "b"}

\* What a field step may return: nothing, a public error, a nested map, a
\* private error.
FieldOutcomes ==
    {Nil, ErrRequired, ErrTooShort, ValidationError("x" :> "invalid"),
     privateError("internal", Nil)}

\* What a session step returns in this program: nothing, a ModelError
\* (ErrReadOnly, ErrNotFound), or a private error.
SessionOutcomes == {Nil, ErrReadOnly, privateError("internal", Nil)}

AbstractSteps ==
    {AbstractStep(f, o) : f \in PipelineFields, o \in FieldOutcomes}
        \cup {AbstractStep("", o) : o \in SessionOutcomes}

Pipelines == UNION {[1..n -> AbstractSteps] : n \in 0..MaxSteps}

\* No restricted route is installed.
NoRoute == [p |-> 0]

NoCall == [op |-> "none"]

NoRet == [err |-> Nil]

NoFx == {}

\* The pipeline to run is drawn when the run starts; RunPipeline applies the
\* engine to it.
InitPipeline ==
    /\ users = <<>>
    /\ roles = <<>>
    /\ ratings = <<>>
    /\ seq = [users |-> 1, ratings |-> 1, roles |-> 3]
    /\ tokens = {}
    /\ now = 0
    /\ ticks = 0
    /\ route = NoRoute
    /\ call \in {[op |-> "pending", fns |-> fns] : fns \in Pipelines}
    /\ ret = NoRet
    /\ fx = NoFx

RunPipeline ==
    /\ call.op = "pending"
    /\ LET r == runValidationFunctions([v |-> 0], call.fns) IN
       /\ call' = [op |-> "runValidationFunctions", fns |-> call.fns]
       /\ ret' = [err |-> r.err, calls |-> r.calls, ve |-> r.ve]
    /\ UNCHANGED <<users, roles, ratings, seq, tokens, now, ticks, route, fx>>

SpecPipeline == InitPipeline /\ [][RunPipeline]_vars

Invoked(i) == \E n \in 1..Len(ret.calls) : ret.calls[n] = i

\* C7: once a step tagged f has returned a public error, no later step tagged
\* f is invoked, and the error recorded for f stays that first error.
C7_FirstFieldErrorWins ==
    call.op = "runValidationFunctions" =>
        \A i \in 1..Len(call.fns) :
            LET s == call.fns[i] IN
            (s.field # "" /\ Invoked(i) /\ s.out.kind = "ModelError") =>
                /\ \A j \in (i + 1)..Len(call.fns) :
                       call.fns[j].field = s.field => ~Invoked(j)
                /\ s.field \in DOMAIN ret.ve
                /\ ret.ve[s.field] = s.out.code

\* A run in which a field's first step fails with "required", a later step of
\* the same field would have failed with "too_short", and the map returned
\* holds "required".
C7_Witness ==
    /\ call.op = "runValidationFunctions"
    /\ Len(call.fns) = 3
    /\ call.fns[1] = AbstractStep("a", ErrRequired)
    /\ call.fns[2] = AbstractStep("b", Nil)
    /\ call.fns[3] = AbstractStep("a", ErrTooShort)
    /\ ret.calls = <<1, 2>>
    /\ ret.err = ValidationError("a" :> "required")

\* C8: a session step that returns an error ends the run: that error alone is
\* returned, it is no field-error map, no later step runs and no field error
\* has been recorded.
C8_SessionErrorAlone ==
    call.op = "runValidationFunctions" =>
        \A i \in 1..Len(call.fns) :
            LET s == call.fns[i] IN
            (s.field = "" /\ Invoked(i) /\ s.out # Nil) =>
                /\ ret.err = s.out
                /\ ret.err.kind # "ValidationError"
                /\ ret.calls[Len(ret.calls)] = i
                /\ ret.ve = NoFields

\* A run whose second step is a failing session step followed by a field step
\* that would have failed.
C8_Witness ==
    /\ call.op = "runValidationFunctions"
    /\ Len(call.fns) = 3
    /\ call.fns[1] = AbstractStep("a", Nil)
    /\ call.fns[2] = AbstractStep("", ErrReadOnly)
    /\ call.fns[3] = AbstractStep("a", ErrRequired)
    /\ ret.calls = <<1, 2>>
    /\ ret.err = ErrReadOnly

\* C22: once a step tagged f has returned a nested field-error map, which is
\* merged under the keys "f.<nested field>", no later step tagged f is invoked.
C22_NestedErrorMarksField ==
    call.op = "runValidationFunctions" =>
        \A i \in 1..Len(call.fns) :
            LET s == call.fns[i] IN
            (s.field # "" /\ Invoked(i) /\ s.out.kind = "ValidationError") =>
                \A j \in (i + 1)..Len(call.fns) :
                    call.fns[j].field = s.field => ~Invoked(j)

\* C23: a step that returns an error which is neither a field-error map nor a
\* public error ends the run: it is the last step invoked and its error is
\* returned as it is, without the field errors recorded before it.
C23_PrivateErrorAlone ==
    call.op = "runValidationFunctions" =>
        \A i \in 1..Len(call.fns) :
            LET s == call.fns[i] IN
            (Invoked(i) /\ s.out.kind # "nil" /\ ~IsPublicError(s.out)) =>
                /\ ret.err = s.out
                /\ ret.calls[Len(ret.calls)] = i
                /\ \A j \in (i + 1)..Len(call.fns) : ~Invoked(j)

\* A run whose first step records a field error, whose second step, of
\* another field, fails with a private error, and whose third step would have
\* run otherwise.
C23_Witness ==
    /\ call.op = "runValidationFunctions"
    /\ Len(call.fns) = 3
    /\ call.fns[1] = AbstractStep("a", ErrRequired)
    /\ call.fns[2] = AbstractStep("b", privateError("internal", Nil))
    /\ call.fns[3] = AbstractStep("b", ErrTooShort)
    /\ ret.calls = <<1, 2>>
    /\ ret.ve = ("a" :> "required")
    /\ ret.err = privateError("internal", Nil)

(***************************************************************************)
(* The rating service: ratingValidator in front of ratingGorm.             *)
(***************************************************************************)
NoCx == [sessionUser |-> ZeroUser, dbRating |-> ZeroRating, current |-> ZeroUser]

ratingCreateFns ==
    <<Step("", "rating.idSetToZero"), Step("", "userSessionExists"),
      Step("", "userSessionInvalid"), Step("target", "targetRequired"),
      Step("score", "scoreRequired"), Step("comment", "commentLength"),
      Step("extra", "extraLength"), Step("target", "targetInvalid"),
      Step("", "rating.fetchUser"), Step("", "setSessionUserAsUserID"),
      Step("", "rating.setDate")>>

ratingUpdateFns ==
    <<Step("", "userSessionExists"), Step("", "userSessionInvalid"),
      Step("score", "scoreRequired"), Step("comment", "commentLength"),
      Step("extra", "extraLength"), Step("", "rating.fetchUser"),
      Step("", "fetchRating"), Step("", "userIsOwner"),
      Step("", "setDatabaseRatingDefaults"), Step("", "setSessionUserAsUserID"),
      Step("", "rating.setDate")>>

ratingDeleteFns ==
    <<Step("", "userSessionExists"), Step("", "userSessionInvalid"),
      Step("", "rating.fetchUser"), Step("", "fetchRating"),
      Step("", "userIsOwnerOrAdmin")>>

\* The row a rating value is stored as: rating.User is not a column.
RatingRow(r) == [r EXCEPT !.User = NilUser]

\* uix_ratings_user_id_target, seen by a row about to take id `id`.
ratingPairTaken(r, id) ==
    \E k \in DOMAIN ratings \ {id} :
        ratings[k].UserID = r.UserID /\ ratings[k].Target = r.Target

\* ratingGorm.Create: the INSERT draws the next id, then meets the foreign key
\* and the unique index.  The sequence value is spent either way.
ratingGormCreate(r) ==
    LET id == seq.ratings IN
    IF r.UserID \notin DOMAIN users
    THEN [err |-> ValidationError("userId" :> "reference_not_found"),
          ratings |-> ratings, id |-> r.ID]
    ELSE IF ratingPairTaken(r, id)
    THEN [err |-> ValidationError("target" :> "is_duplicate"),
          ratings |-> ratings, id |-> r.ID]
    ELSE [err |-> Nil, ratings |-> (id :> [RatingRow(r) EXCEPT !.ID = id]) @@ ratings,
          id |-> id]

\* ratingGorm.Update: UPDATE ... WHERE id = r.ID with every column of r.
ratingGormUpdate(r) ==
    IF r.ID \notin DOMAIN ratings
    THEN [err |-> ErrNotFound, ratings |-> ratings]
    ELSE IF r.UserID \notin DOMAIN users
    THEN [err |-> ValidationError("userId" :> "reference_not_found"), ratings |-> ratings]
    ELSE IF ratingPairTaken(r, r.ID)
    THEN [err |-> ValidationError("target" :> "is_duplicate"), ratings |-> ratings]
    ELSE [err |-> Nil, ratings |-> [ratings EXCEPT ![r.ID] = RatingRow(r)]]

\* ratingGorm.Delete: DELETE ... WHERE id = r.ID.
ratingGormDelete(r) ==
    IF r.ID \notin DOMAIN ratings
    THEN [err |-> ErrNotFound, ratings |-> ratings]
    ELSE [err |-> Nil, ratings |-> [k \in DOMAIN ratings \ {r.ID} |-> ratings[k]]]

MaxRatingID == 2

\* What a request may carry.  A payload is the body's part of a rating: one
\* that passes every field check, with or without an id and a userId of its
\* own, and ones that fail one or two of them.
RatingIDs == 0..MaxRatingID

Payload(id, c, s, t, u) ==
    [ID |-> id, Comment |-> c, Date |-> 0, Extra |-> 2, Score |-> s, Target |-> t,
     UserID |-> u, User |-> NilUser]

CreatePayloads ==
    {Payload(0, 0, 7, 1, 0), Payload(2, 0, 7, 2, 1), Payload(0, 0, 0, 1, 0),
     Payload(0, 513, 7, 1, 0), Payload(0, 0, 7, 0, 0), Payload(0, 0, 7, -1, 0),
     Payload(0, 0, 0, 0, 1)}

UpdatePayloads ==
    {Payload(0, 0, 7, 1, 0), Payload(0, 0, 7, 2, 1), Payload(0, 0, 0, 1, 0),
     Payload(0, 513, 7, 2, 0)}

\* The callers: no session user, an id that is no id, the admin, the ordinary
\* user, and an id that is not stored, each with the role id it is stored
\* with (the admin role for user 1, the user role for the others).
SessionCallers == {NilUser, Caller(0, 2), Caller(1, 1), Caller(2, 2), Caller(3, 2)}

\* Delete reads the role id of the caller value: there it is drawn freely.
DeleteCallers == {NilUser} \cup {Caller(id, rid) : id \in 0..3, rid \in {1, 2}}

CreateInputs == {[p EXCEPT !.User = who] : p \in CreatePayloads, who \in SessionCallers}

UpdateInputs ==
    {[p EXCEPT !.ID = id, !.User = who] :
        p \in UpdatePayloads, id \in RatingIDs, who \in SessionCallers}

DeleteInputs ==
    {[ZeroRating EXCEPT !.ID = id, !.User = who] : id \in RatingIDs, who \in DeleteCallers}

\* What is observed of a call: the operation, the rating id, the userId and
\* the caller it carried, the whole payload, and the owner of that rating as stored when the
\* call was made (0 when there is no such rating).
RatingCall(op, r) ==
    [op |-> op, id |-> r.ID, userId |-> r.UserID, user |-> r.User, in |-> r,
     owner |-> IF r.ID \in DOMAIN ratings THEN ratings[r.ID].UserID ELSE 0]

RatingCreate ==
    \E r \in CreateInputs :
        LET p == runValidationFunctions([v |-> r, cx |-> NoCx], ratingCreateFns)
            w == ratingGormCreate(p.st.v)
        IN
        /\ seq.ratings <= MaxRatingID
        /\ call' = RatingCall("Rating.Create", r)
        /\ IF p.err # Nil
           THEN /\ ret' = [err |-> p.err]
                /\ fx' = NoFx
                /\ UNCHANGED <<ratings, seq>>
           ELSE /\ ret' = [err |-> w.err]
                /\ fx' = {"RatingDB.Create"}
                /\ ratings' = w.ratings
                /\ seq' = [seq EXCEPT !.ratings = @ + 1]
        /\ UNCHANGED <<users, roles, tokens, now, ticks, route>>

RatingUpdate ==
    \E r \in UpdateInputs :
        LET p == runValidationFunctions([v |-> r, cx |-> NoCx], ratingUpdateFns)
            w == ratingGormUpdate(p.st.v)
        IN
        /\ call' = RatingCall("Rating.Update", r)
        /\ IF p.err # Nil
           THEN /\ ret' = [err |-> p.err]
                /\ fx' = NoFx
                /\ UNCHANGED ratings
           ELSE /\ ret' = [err |-> w.err]
                /\ fx' = {"RatingDB.Update"}
                /\ ratings' = w.ratings
        /\ UNCHANGED <<users, roles, seq, tokens, now, ticks, route>>

RatingDelete ==
    \E r \in DeleteInputs :
        LET p == runValidationFunctions([v |-> r, cx |-> NoCx], ratingDeleteFns)
            w == ratingGormDelete(p.st.v)
        IN
        /\ call' = RatingCall("Rating.Delete", r)
        /\ IF p.err # Nil
           THEN /\ ret' = [err |-> p.err]
                /\ fx' = NoFx
                /\ UNCHANGED ratings
           ELSE /\ ret' = [err |-> w.err]
                /\ fx' = {"RatingDB.Delete"}
                /\ ratings' = w.ratings
        /\ UNCHANGED <<users, roles, seq, tokens, now, ticks, route>>

(***************************************************************************)
(* The rating service on its own, over a storage that holds the admin and  *)
(* one ordinary user.                                                      *)
(***************************************************************************)
UserEmail == <<"u", "@", "b", ".", "c", "d">>

OrdinaryUser ==
    [ID |-> 2, Active |-> TRUE, Email |-> UserEmail, FirstName |-> 2,
     Password |-> bcryptHash("password1"), RoleID |-> 2, Role |-> NilRole,
     Settings |-> 0]

InitRatings ==
    /\ users = (1 :> AdminUser) @@ (2 :> OrdinaryUser)
    /\ roles = DefaultRoles
    /\ ratings = <<>>
    /\ seq = [users |-> 3, ratings |-> 1, roles |-> 3]
    /\ tokens = {}
    /\ now = 0
    /\ ticks = 0
    /\ route = NoRoute
    /\ call = NoCall
    /\ ret = NoRet
    /\ fx = NoFx

NextRatings == RatingCreate \/ RatingUpdate \/ RatingDelete

SpecRatings == InitRatings /\ [][NextRatings]_vars

\* C1: an Update reaches the repository only for the rating's owner: a caller
\* whose id is not the stored userId of rating R, the admin included, never
\* has R written.
C1_UpdateOnlyByOwner ==
    [][call'.op = "Rating.Update" =>
        /\ "RatingDB.Update" \in fx' =>
              /\ ~call'.user.nil
              /\ call'.id \in DOMAIN ratings
              /\ ratings[call'.id].UserID = call'.user.ID
        /\ \A id \in DOMAIN ratings :
              (call'.user.nil \/ ratings[id].UserID # call'.user.ID) =>
                  (id \in DOMAIN ratings' /\ ratings'[id] = ratings[id])]_vars

\* The admin (user 1, role 1) has asked to update a rating of user 2 and was
\* refused without a write.
C1_Witness ==
    /\ call.op = "Rating.Update"
    /\ call.user = Caller(1, 1)
    /\ call.owner = 2
    /\ call.id \in DOMAIN ratings
    /\ ret.err = ErrReadOnly
    /\ fx = NoFx

\* C2: for a stored rating R and a stored caller C, Delete reaches the
\* repository exactly when C owns R or C's role id is 1; then R is removed,
\* and otherwise the call returns ErrReadOnly and R stays.
C2_DeleteByOwnerOrAdmin ==
    [][(/\ call'.op = "Rating.Delete"
        /\ ~call'.user.nil
        /\ call'.user.ID \in DOMAIN users
        /\ call'.id \in DOMAIN ratings) =>
            LET allowed == \/ ratings[call'.id].UserID = call'.user.ID
                           \/ call'.user.RoleID = AdminRoleID
            IN
            /\ ("RatingDB.Delete" \in fx') <=> allowed
            /\ allowed => (ret'.err = Nil /\ call'.id \notin DOMAIN ratings')
            /\ ~allowed => (ret'.err = ErrReadOnly /\ ratings' = ratings)]_vars

\* The admin has deleted a rating that user 2 owned.
C2_Witness ==
    /\ call.op = "Rating.Delete"
    /\ call.user = Caller(1, 1)
    /\ call.owner = 2
    /\ call.id \notin DOMAIN ratings
    /\ ret.err = Nil
    /\ fx = {"RatingDB.Delete"}

\* C16: a Create that succeeds stores one new rating, under the id the
\* sequence gave and with the caller's id as userId, whatever id and userId
\* the input carried.
C16_CreateForcesOwnerAndID ==
    [][(call'.op = "Rating.Create" /\ ret'.err = Nil) =>
        /\ DOMAIN ratings' = DOMAIN ratings \cup {seq.ratings}
        /\ seq.ratings \notin DOMAIN ratings
        /\ ratings'[seq.ratings].ID = seq.ratings
        /\ ratings'[seq.ratings].UserID = call'.user.ID
        /\ \A k \in DOMAIN ratings : ratings'[k] = ratings[k]]_vars

C16_Witness ==
    /\ call.op = "Rating.Create" /\ ret.err = Nil
    /\ call.id = 2 /\ call.userId = 1 /\ call.user.ID = 2
    /\ DOMAIN ratings = {1} /\ ratings[1].UserID = 2 /\ ratings[1].ID = 1

\* C25: a Rating.Update leaves the userId and the target of every stored
\* rating as they were, so through any sequence of Updates they keep the
\* values given at creation; the target and userId of the payload are ignored.
C25_UpdateKeepsOwnerAndTarget ==
    [][call'.op = "Rating.Update" =>
        \A id \in DOMAIN ratings :
            /\ id \in DOMAIN ratings'
            /\ ratings'[id].UserID = ratings[id].UserID
            /\ ratings'[id].Target = ratings[id].Target]_vars

\* User 2 has updated a rating of theirs, stored with target 1, with a
\* payload that carried target 2 and userId 1.
C25_Witness ==
    /\ call.op = "Rating.Update" /\ ret.err = Nil /\ fx = {"RatingDB.Update"}
    /\ call.userId = 1 /\ call.user.ID = 2
    /\ call.id \in DOMAIN ratings
    /\ ratings[call.id].Target = 1 /\ ratings[call.id].UserID = 2

\* C21: a Rating.Update on a stored rating by a stored caller who is not the
\* rating's owner returns ErrReadOnly, whatever the payload carries.
C21_NonOwnerUpdateIsReadOnly ==
    (/\ call.op = "Rating.Update"
     /\ ~call.user.nil
     /\ call.user.ID \in DOMAIN users
     /\ call.owner # 0
     /\ call.owner # call.user.ID) => ret.err = ErrReadOnly

(***************************************************************************)
(* The user service: userService in front of userValidator in front of     *)
(* userGorm.                                                               *)
(***************************************************************************)
userAuthenticateFns ==
    <<Step("email", "emailRequired"), Step("password", "passwordRequired"),
      Step("password", "passwordLength"), Step("email", "normaliseEmail"),
      Step("email", "emailFormat")>>

userUpdateFns ==
    <<Step("", "user.fetchUser"), Step("", "user.idNotAdmin"),
      Step("firstName", "firstNameRequired"), Step("firstName", "firstNameLength"),
      Step("settings", "settingsLength"), Step("email", "emailRequired"),
      Step("email", "normaliseEmail"), Step("email", "emailFormat"),
      Step("password", "passwordLength"), Step("", "passwordHash"),
      Step("", "preservePassword"), Step("email", "uc.emailIsTaken"),
      Step("roleId", "roleIDExists")>>

userDeleteFns == <<Step("", "user.idNotAdmin")>>

\* bcrypt.CompareHashAndPassword(hash, password)
bcryptCompare(hash, password) ==
    IF ~hash.bcrypt THEN wrap("failed to compare password hashes", Nil)
    ELSE IF hash.text # password THEN ValidationError("password" :> "incorrect_password")
    ELSE Nil

\* users.go:411-425: the account found, against the password given.
authenticateFound(user, password) ==
    IF ~user.Active THEN [user |-> ZeroUser, err |-> ErrInvalid]
    ELSE IF bcryptCompare(user.Password, password) # Nil
    THEN [user |-> ZeroUser, err |-> bcryptCompare(user.Password, password)]
    ELSE [user |-> user, err |-> Nil]

\* users.go:401-409: after the pipeline p, the repository is asked.
authenticateValidated(p, password) ==
    IF p.err # Nil THEN [user |-> ZeroUser, err |-> p.err, reads |-> {}]
    ELSE IF p.st.v.Email \notin {users[id].Email : id \in DOMAIN users}
    THEN [user |-> ZeroUser, err |-> ErrNotFound, reads |-> {"UserDB.ByEmail"}]
    ELSE [reads |-> {"UserDB.ByEmail"}]
            @@ authenticateFound(userGormByEmail(p.st.v.Email).user, password)

\* userValidator.Authenticate; reads lists the repository calls it made.
userValidatorAuthenticate(username, password) ==
    authenticateValidated(
        runValidationFunctions(
            [v |-> [ZeroUser EXCEPT !.Email = username, !.Password = Plain(password)],
             cx |-> NoCx],
            userAuthenticateFns),
        password)

\* waitAfterAuthError, in milliseconds.
waitAfterAuthError == 500

hideError_Leaky(err) == err

\* users.go:194-203: what a failure other than missing credentials is
\* reported as.
hideError(err) ==
    IF err.kind = "ValidationError" \/ AsModelError(err) THEN ErrUnauthorised ELSE err

\* users.go:195-197: the return that precedes the protection sleep.
returnsBeforeSleep(err) ==
    /\ err.kind = "ValidationError"
    /\ "password" \in DOMAIN err.fields
    /\ err.fields["password"] = ErrPasswordIncorrect.code

\* users.go:189-210: what the service makes of the validator's answer r.
authenticateResult(r) ==
    IF r.err = Nil THEN [user |-> r.user, err |-> Nil, slept |-> 0, reads |-> r.reads]
    ELSE IF \/ ValidationErrorIs(r.err, ValidationError("email" :> "required"))
            \/ ValidationErrorIs(r.err, ValidationError("password" :> "required"))
    THEN [user |-> r.user, err |-> ErrNoCredentials, slept |-> 0, reads |-> r.reads]
    ELSE IF returnsBeforeSleep(r.err)
    THEN [user |-> r.user, err |-> ErrUnauthorised, slept |-> 0, reads |-> r.reads]
    ELSE [user |-> ZeroUser, err |-> hideError(r.err), slept |-> waitAfterAuthError,
          reads |-> r.reads]

\* userService.Authenticate; slept is the time spent in time.Sleep.
userServiceAuthenticate(username, password) ==
    authenticateResult(userValidatorAuthenticate(username, password))

\* users.go:488-491: after the pipeline p, the repository is written.
updateValidated_Unchecked(p) ==
    [user |-> [p.st.v EXCEPT !.Password = Plain("")], writes |-> {"UserDB.Update"}]
        @@ userGormUpdate(p.st.v)

updateValidated(p) ==
    IF p.err # Nil
    THEN [err |-> p.err, users |-> users, user |-> [p.st.v EXCEPT !.Password = Plain("")],
          writes |-> {}]
    ELSE [user |-> [p.st.v EXCEPT !.Password = Plain("")], writes |-> {"UserDB.Update"}]
            @@ userGormUpdate(p.st.v)

\* userValidator.Update: the value handed back has its password cleared.
userValidatorUpdate(u) ==
    updateValidated(runValidationFunctions([v |-> u, cx |-> NoCx], userUpdateFns))

\* users.go:498-501
deleteValidated(p, id) ==
    IF p.err # Nil THEN [err |-> p.err, users |-> users, writes |-> {}]
    ELSE [writes |-> {"UserDB.Delete"}] @@ userGormDelete(id)

userValidatorDelete(id) ==
    deleteValidated(
        runValidationFunctions([v |-> [ZeroUser EXCEPT !.ID = id], cx |-> NoCx],
                               userDeleteFns),
        id)

\* What a login or a user request may carry.
InactiveEmail == <<"v", "@", "b", ".", "c", "d">>

InactiveUser ==
    [ID |-> 3, Active |-> FALSE, Email |-> InactiveEmail, FirstName |-> 2,
     Password |-> bcryptHash("password1"), RoleID |-> 2, Role |-> NilRole,
     Settings |-> 0]

Usernames ==
    {<<>>, <<" ">>, UserEmail, <<" ", "U", "@", "b", ".", "C", "d", " ">>, InactiveEmail,
     <<"w", "@", "b", ".", "c", "d">>, <<"u", "@", "b">>}

Passwords == {"", "short", "password1", "password2"}

EmailOfID(id) ==
    CASE id = 1 -> AdminEmail
      [] id = 2 -> UserEmail
      [] id = 3 -> InactiveEmail
      [] OTHER -> <<"w", "@", "b", ".", "c", "d">>

UserPayload(id, active, email, first, pw, rid) ==
    [ZeroUser EXCEPT !.ID = id, !.Active = active, !.Email = email, !.FirstName = first,
                     !.Password = Plain(pw), !.RoleID = rid]

MaxUserID == 4

UserUpdateInputs ==
    {UserPayload(id, a, EmailOfID(id), 2, pw, 2) :
        id \in 1..MaxUserID, a \in BOOLEAN, pw \in {"", "password2"}}
    \cup {UserPayload(2, TRUE, UserEmail, 0, "", 2),
          UserPayload(2, TRUE, InactiveEmail, 2, "", 2),
          UserPayload(2, TRUE, UserEmail, 2, "short", 2),
          UserPayload(2, TRUE, UserEmail, 2, "", 9)}

Authenticate ==
    \E username \in Usernames : \E password \in Passwords :
        \E r \in {userServiceAuthenticate(username, password)} :
        /\ call' = [op |-> "User.Authenticate", username |-> username,
                    password |-> password]
        /\ ret' = [err |-> r.err, user |-> r.user, slept |-> r.slept]
        /\ fx' = r.reads \cup (IF r.slept > 0 THEN {"time.Sleep"} ELSE {})
        /\ UNCHANGED <<users, roles, ratings, seq, tokens, now, ticks, route>>

\* The ledger of tokens handed out remembers, as history, whether the
\* principal of a token has been inactive or missing since it was minted.
Lapse(ledger, us) ==
    {[e EXCEPT !.lapsed = e.lapsed \/ e.uid \notin DOMAIN us \/ ~us[e.uid].Active] :
        e \in ledger}

UserUpdateWith(inputs) ==
    \E u \in inputs :
        \E r \in {userValidatorUpdate(u)} :
        /\ call' = [op |-> "User.Update", id |-> u.ID, user |-> u]
        /\ ret' = [err |-> r.err, user |-> r.user]
        /\ fx' = r.writes
        /\ users' = r.users
        /\ tokens' = Lapse(tokens, r.users)
        /\ UNCHANGED <<roles, ratings, seq, now, ticks, route>>

UserUpdate == UserUpdateWith(UserUpdateInputs)

UserDelete ==
    \E id \in 1..MaxUserID :
        \E r \in {userValidatorDelete(id)} :
        /\ call' = [op |-> "User.Delete", id |-> id]
        /\ ret' = [err |-> r.err]
        /\ fx' = r.writes
        /\ users' = r.users
        /\ tokens' = Lapse(tokens, r.users)
        /\ UNCHANGED <<roles, ratings, seq, now, ticks, route>>

(***************************************************************************)
(* Logging in, while the users are updated and deleted.                    *)
(***************************************************************************)
\* The ratings table at the start: empty, or one rating that user 2 made.
LoginRatings ==
    {<<>>, <<[ZeroRating EXCEPT !.ID = 1, !.Score = 7, !.Target = 1, !.UserID = 2]>>}

InitLogin ==
    /\ users = (1 :> AdminUser) @@ (2 :> OrdinaryUser) @@ (3 :> InactiveUser)
    /\ roles = DefaultRoles
    /\ ratings \in LoginRatings
    /\ seq = [users |-> 4, ratings |-> Len(ratings) + 1, roles |-> 3]
    /\ tokens = {}
    /\ now = 0
    /\ ticks = 0
    /\ route = NoRoute
    /\ call = NoCall
    /\ ret = NoRet
    /\ fx = NoFx

NextLogin == Authenticate \/ UserUpdate \/ UserDelete

SpecLogin == InitLogin /\ [][NextLogin]_vars

\* The account an identifier names once normalised, if any.
AccountOf(username) ==
    {id \in DOMAIN users : users[id].Email = TrimSpace(ToLower(username))}

\* C9: with an identifier and a password given, Authenticate returns the one
\* ErrUnauthorised value, and no user, when no account has the identifier,
\* when the account is inactive and when the password is not the one the
\* stored hash was made from; the three cannot be told apart.
C9_SameErrorForEveryFailure ==
    [][(call'.op = "User.Authenticate" /\ call'.username # <<>> /\ call'.password # "") =>
        /\ ret'.err \in {Nil, ErrUnauthorised}
        /\ ( \/ AccountOf(call'.username) = {}
             \/ \E id \in AccountOf(call'.username) :
                   \/ ~users[id].Active
                   \/ users[id].Password.text # call'.password )
           => (ret'.err = ErrUnauthorised /\ ret'.user = ZeroUser)]_vars

C9_Witness ==
    /\ call.op = "User.Authenticate" /\ call.username = UserEmail
    /\ call.password = "password1" /\ ret.err = ErrUnauthorised
    /\ 2 \in DOMAIN users /\ users[2].Active /\ users[2].Password = bcryptHash("password2")

\* C10: every Authenticate call that ends in ErrUnauthorised has spent the
\* protection delay of at least 500ms before it returns.
C10_UnauthorisedAfterDelay ==
    (call.op = "User.Authenticate" /\ ret.err = ErrUnauthorised) =>
        (ret.slept >= 500 /\ "time.Sleep" \in fx)

\* C11: Authenticate trims and lowercases the identifier first; when the
\* identifier is then empty, or the password is empty, it returns
\* ErrNoCredentials and has made no repository read.
C11_NoCredentialsBeforeAnyRead ==
    ( /\ call.op = "User.Authenticate"
      /\ (TrimSpace(ToLower(call.username)) = <<>> \/ call.password = "") )
    => (ret.err = ErrNoCredentials /\ "UserDB.ByEmail" \notin fx)

\* C12: every user value the user service hands back (here by Authenticate,
\* and the record Update leaves in its argument) has an empty Password: the
\* stored hash is never returned.
C12_PasswordNeverReturned ==
    (call.op \in {"User.Authenticate", "User.Update"}) => ret.user.Password = Plain("")

\* C15: a user Update or Delete that targets id 1 returns ErrReadOnly whatever
\* it carries and writes nothing, so the stored record of user 1, its active
\* flag, role and password included, stays what it was.
C15_AdminUserIsReadOnly ==
    /\ (call.op \in {"User.Update", "User.Delete"} /\ call.id = 1)
          => (ret.err = ErrReadOnly /\ fx = {})
    /\ 1 \in DOMAIN users /\ users[1] = AdminUser

C15_Witness ==
    /\ call.op = "User.Update" /\ call.id = 1 /\ ret.err = ErrReadOnly
    /\ ~call.user.Active /\ call.user.Password = Plain("password2")
    /\ 2 \notin DOMAIN users

\* C19: an Update that succeeds with an empty password leaves the stored
\* hash as it was, so the passwords that matched it still do; one that
\* succeeds with a password of its own stores the hash of that password.
C19_EmptyPasswordKeepsHash ==
    [][(call'.op = "User.Update" /\ ret'.err = Nil) =>
        /\ call'.id \in DOMAIN users /\ call'.id \in DOMAIN users'
        /\ (call'.user.Password = Plain("")) =>
              /\ users'[call'.id].Password = users[call'.id].Password
              /\ \A pw \in Passwords :
                    bcryptCompare(users'[call'.id].Password, pw)
                        = bcryptCompare(users[call'.id].Password, pw)
        /\ (call'.user.Password # Plain("")) =>
              /\ users'[call'.id].Password = bcryptHash(call'.user.Password.text)
              /\ bcryptCompare(users'[call'.id].Password, call'.user.Password.text) = Nil]_vars

\* The password was replaced once, and an Update without one has kept it.
C19_Witness ==
    /\ call.op = "User.Update" /\ ret.err = Nil /\ call.id = 2
    /\ call.user.Password = Plain("")
    /\ 2 \in DOMAIN users /\ users[2].Password = bcryptHash("password2")

\* C24: a uniqueness or foreign-key violation that storage raises during a
\* user Update or Delete reaches the caller as a public error (a field-error
\* map or a model error), never as a private one.
C24_StorageViolationsArePublic ==
    (call.op \in {"User.Update", "User.Delete"} /\ fx # NoFx) =>
        ret.err.kind \in {"nil", "ValidationError", "ModelError"}

(***************************************************************************)
(* Tokens.  A compact JWS is a sequence of strings: the header mark, the   *)
(* issuer, the subject, the expiry and the role id in decimal digits, and  *)
(* the key it was signed with, separated by ".".  Time is in minutes.      *)
(***************************************************************************)
\* strconv.FormatInt(n, 10)
RECURSIVE FormatInt(_)
FormatInt(n) ==
    IF n < 0 THEN <<"-">> \o FormatInt(0 - n)
    ELSE IF n < 10 THEN <<Digits[n + 1]>>
    ELSE FormatInt(n \div 10) \o <<Digits[(n % 10) + 1]>>

RECURSIVE parseDigits(_, _)
parseDigits(s, acc) ==
    IF s = <<>> THEN acc
    ELSE parseDigits(Tail(s), 10 * acc + (CHOOSE k \in 0..9 : Digits[k + 1] = Head(s)))

\* strconv.ParseInt(s, 10, 0)
ParseInt(s) ==
    IF s # <<>> /\ Head(s) \in {"-", "+"}
    THEN IF Tail(s) = <<>> \/ Range(Tail(s)) \ Range(Digits) # {}
         THEN [n |-> 0, ok |-> FALSE]
         ELSE [n |-> IF Head(s) = "-" THEN 0 - parseDigits(Tail(s), 0)
                     ELSE parseDigits(Tail(s), 0),
               ok |-> TRUE]
    ELSE IF s = <<>> \/ Range(s) \ Range(Digits) # {}
    THEN [n |-> 0, ok |-> FALSE]
    ELSE [n |-> parseDigits(s, 0), ok |-> TRUE]

jwtAccessDuration == 6 * 60

jwtRefreshDuration == 10 * 24 * 60

\* jwt.DefaultLeeway, the slack cl.Validate gives an expiry: one minute.
DefaultLeeway == 1

jwtSecret == "secret"

\* jwt.Signed(signer).Claims(cl).CompactSerialize(), signing with key.
CompactSerialize(cl, key) ==
    <<"eyJ", ".", cl.Issuer, ".">> \o cl.Subject \o <<".">> \o FormatInt(cl.Expiry)
        \o <<".">> \o FormatInt(cl.RoleID) \o <<".", key>>

RECURSIVE SplitDots(_)
SplitDots(s) ==
    IF "." \notin Range(s) THEN <<s>>
    ELSE <<SubSeq(s, 1, (CHOOSE i \in DOMAIN s : s[i] = "." /\ \A j \in 1..(i - 1) : s[j] # ".") - 1)>>
         \o SplitDots(SubSeq(s, (CHOOSE i \in DOMAIN s :
                                    s[i] = "." /\ \A j \in 1..(i - 1) : s[j] # ".") + 1, Len(s)))

NoClaims == [Issuer |-> "", Subject |-> <<>>, Expiry |-> 0, RoleID |-> 0]

parsedParts(parts) ==
    IF /\ Len(parts) = 6
       /\ parts[1] = <<"eyJ">>
       /\ Len(parts[2]) = 1
       /\ ParseInt(parts[4]).ok
       /\ ParseInt(parts[5]).ok
       /\ Len(parts[6]) = 1
    THEN [ok |-> TRUE, key |-> parts[6][1],
          cl |-> [Issuer |-> parts[2][1], Subject |-> parts[3],
                  Expiry |-> ParseInt(parts[4]).n, RoleID |-> ParseInt(parts[5]).n]]
    ELSE [ok |-> FALSE, key |-> "", cl |-> NoClaims]

\* jwt.ParseSigned(token): the parts of a well-formed token.
ParseSigned(token) == parsedParts(SplitDots(token))

expectedIssuer_Same(isRefresh) == "ratingsapp"

\* users.go:355-358
expectedIssuer(isRefresh) == IF isRefresh THEN "ratingsappr" ELSE "ratingsapp"

\* cl.Validate(jwt.Expected{Issuer, Time}): the issuer first, then the expiry.
claimsValidate_NoExpiry(cl, iss, time) == IF cl.Issuer # iss THEN "ErrInvalidIssuer" ELSE "ok"

\* jwt.Claims.Validate: the issuer, then the expiry with the default leeway.
claimsValidate(cl, iss, time) ==
    IF cl.Issuer # iss THEN "ErrInvalidIssuer"
    ELSE IF time - DefaultLeeway > cl.Expiry THEN "ErrExpired"
    ELSE "ok"

validateParsed(p, isRefresh) ==
    IF ~p.ok THEN [uid |-> 0, rid |-> 0, err |-> ErrRefreshInvalid]
    ELSE IF p.key # jwtSecret THEN [uid |-> 0, rid |-> 0, err |-> ErrRefreshInvalid]
    ELSE IF claimsValidate(p.cl, expectedIssuer(isRefresh), now) = "ErrExpired"
    THEN [uid |-> 0, rid |-> 0, err |-> ErrRefreshExpired]
    ELSE IF claimsValidate(p.cl, expectedIssuer(isRefresh), now) # "ok"
    THEN [uid |-> 0, rid |-> 0, err |-> ErrRefreshInvalid]
    ELSE IF ~ParseInt(p.cl.Subject).ok THEN [uid |-> 0, rid |-> 0, err |-> ErrRefreshInvalid]
    ELSE [uid |-> ParseInt(p.cl.Subject).n, rid |-> p.cl.RoleID, err |-> Nil]

tokenValidate(token, isRefresh) == validateParsed(ParseSigned(token), isRefresh)

tokenUser_NoActiveCheck(tv) ==
    IF tv.err # Nil
    THEN [user |-> ZeroUser,
          err |-> IF AsModelError(tv.err) THEN ErrUnauthorised
                  ELSE wrap("failed to validate refresh token", tv.err)]
    ELSE IF userServiceByID(tv.uid).err # Nil
    THEN [user |-> ZeroUser, err |-> ErrUnauthorised]
    ELSE [user |-> userServiceByID(tv.uid).user, err |-> Nil]

\* users.go:220-242 and 252-274: the user a validated token stands for.
tokenUser(tv) ==
    IF tv.err # Nil
    THEN [user |-> ZeroUser,
          err |-> IF AsModelError(tv.err) THEN ErrUnauthorised
                  ELSE wrap("failed to validate refresh token", tv.err)]
    ELSE IF userServiceByID(tv.uid).err # Nil
    THEN [user |-> ZeroUser, err |-> ErrUnauthorised]
    ELSE IF ~userServiceByID(tv.uid).user.Active
    THEN [user |-> ZeroUser, err |-> ErrUnauthorised]
    ELSE [user |-> userServiceByID(tv.uid).user, err |-> Nil]

userServiceRefresh(refreshToken) ==
    IF refreshToken = <<>> THEN [user |-> ZeroUser, err |-> ErrNoCredentials]
    ELSE tokenUser(tokenValidate(refreshToken, TRUE))

userServiceValidate_TokenRole(accessToken) ==
    IF accessToken = <<>> \/ tokenUser(tokenValidate(accessToken, FALSE)).err # Nil
    THEN [user |-> ZeroUser, err |-> ErrUnauthorised]
    ELSE [user |-> [tokenUser(tokenValidate(accessToken, FALSE)).user EXCEPT
                        !.RoleID = tokenValidate(accessToken, FALSE).rid,
                        !.Role = PreloadRole(tokenValidate(accessToken, FALSE).rid)],
          err |-> Nil]

userServiceValidate(accessToken) ==
    IF accessToken = <<>> THEN [user |-> ZeroUser, err |-> ErrUnauthorised]
    ELSE tokenUser(tokenValidate(accessToken, FALSE))

userServiceToken_NoLifetime(u) ==
    [AccessToken |->
        CompactSerialize([Issuer |-> "ratingsapp", Subject |-> FormatInt(u.ID),
                          Expiry |-> now, RoleID |-> u.RoleID], jwtSecret),
     RefreshToken |->
        CompactSerialize([Issuer |-> "ratingsappr", Subject |-> FormatInt(u.ID),
                          Expiry |-> now, RoleID |-> u.RoleID], jwtSecret),
     ExpiresIn |-> jwtAccessDuration * 60, TokenType |-> "bearer"]

\* userService.Token: ExpiresIn is in seconds.
userServiceToken(u) ==
    [AccessToken |->
        CompactSerialize([Issuer |-> "ratingsapp", Subject |-> FormatInt(u.ID),
                          Expiry |-> now + jwtAccessDuration, RoleID |-> u.RoleID],
                         jwtSecret),
     RefreshToken |->
        CompactSerialize([Issuer |-> "ratingsappr", Subject |-> FormatInt(u.ID),
                          Expiry |-> now + jwtRefreshDuration, RoleID |-> u.RoleID],
                         jwtSecret),
     ExpiresIn |-> jwtAccessDuration * 60, TokenType |-> "bearer"]

(***************************************************************************)
(* Sessions: logging in for tokens, presenting them, while users are       *)
(* deactivated, reactivated and deleted and the clock advances.            *)
(***************************************************************************)
MaxMints == 1

MaxTicks == 2

\* A token of no JWS form, and a well-formed one signed with another key.
Garbage == <<"x">>

Forged(token) == SubSeq(token, 1, Len(token) - 1) \o <<"other">>

Minted == {e.raw : e \in tokens}

PresentedTokens ==
    Minted \cup {Forged(e.raw) : e \in {x \in tokens : x.kind = "access"}}
        \cup {<<>>, Garbage}

PasswordGrant(email, password) ==
    [grant |-> "password", email |-> email, password |-> password, refresh |-> <<>>]

LoginInputs ==
    {PasswordGrant(UserEmail, "password1"), PasswordGrant(AdminEmail, "admin's password"),
     [grant |-> "implicit", email |-> UserEmail, password |-> "password1",
      refresh |-> <<>>]}
    \cup {[grant |-> "refresh_token", email |-> <<>>, password |-> "", refresh |-> tk] :
            tk \in Minted \cup {<<>>}}

\* oauthAuthError, oauthBadGrantType: the response to a failed login.
oauthError(err) ==
    IF IsModelError(err, ErrUnauthorised) THEN [status |-> 401, error |-> "invalid_client"]
    ELSE IF IsPublicError(err) THEN [status |-> 400, error |-> "invalid_request"]
    ELSE [status |-> 500, error |-> "server_error"]

\* controllers/users.go:58-75: the user a grant stands for.
loginUser(in) ==
    CASE in.grant = "password" ->
            [user |-> userServiceAuthenticate(in.email, in.password).user,
             err |-> userServiceAuthenticate(in.email, in.password).err, grant |-> TRUE]
      [] in.grant = "refresh_token" -> [grant |-> TRUE] @@ userServiceRefresh(in.refresh)
      [] OTHER -> [user |-> ZeroUser, err |-> Nil, grant |-> FALSE]

LedgerEntries(u, tok) ==
    {[raw |-> tok.AccessToken, uid |-> u.ID, kind |-> "access", at |-> now,
      lapsed |-> FALSE],
     [raw |-> tok.RefreshToken, uid |-> u.ID, kind |-> "refresh", at |-> now,
      lapsed |-> FALSE]}

\* Users.Login: Authenticate or Refresh, then Token.
Login ==
    \E in \in LoginInputs :
        \E r \in {loginUser(in)} :
        /\ call' = [op |-> "Users.Login", in |-> in]
        /\ IF ~r.grant
           THEN /\ ret' = [status |-> 400, error |-> "unsupported_grant_type"]
                /\ fx' = NoFx
                /\ UNCHANGED tokens
           ELSE IF r.err # Nil
           THEN /\ ret' = oauthError(r.err)
                /\ fx' = NoFx
                /\ UNCHANGED tokens
           ELSE /\ Cardinality(tokens \cup LedgerEntries(r.user, userServiceToken(r.user)))
                      <= 2 * MaxMints
                /\ ret' = [status |-> 200, error |-> "", token |-> userServiceToken(r.user)]
                /\ fx' = {"Token"}
                /\ tokens' = tokens \cup LedgerEntries(r.user, userServiceToken(r.user))
        /\ UNCHANGED <<users, roles, ratings, seq, now, ticks, route>>

Validate ==
    \E tk \in PresentedTokens :
        \E r \in {userServiceValidate(tk)} :
        /\ call' = [op |-> "User.Validate", token |-> tk]
        /\ ret' = [err |-> r.err, user |-> r.user]
        /\ fx' = NoFx
        /\ UNCHANGED <<users, roles, ratings, seq, tokens, now, ticks, route>>

Refresh ==
    \E tk \in PresentedTokens :
        \E r \in {userServiceRefresh(tk)} :
        /\ call' = [op |-> "User.Refresh", token |-> tk]
        /\ ret' = [err |-> r.err, user |-> r.user]
        /\ fx' = NoFx
        /\ UNCHANGED <<users, roles, ratings, seq, tokens, now, ticks, route>>

\* The clock moves on: by the leeway, to the expiry of an access token just
\* minted, or to the last minute at which a refresh token just minted is
\* still taken.
TickSteps == {DefaultLeeway, jwtAccessDuration, jwtRefreshDuration + DefaultLeeway}

Tick ==
    \E d \in TickSteps :
        /\ ticks < MaxTicks
        /\ now' = now + d
        /\ ticks' = ticks + 1
        /\ UNCHANGED <<users, roles, ratings, seq, tokens, route, call, ret, fx>>

ActivationInputs ==
    {UserPayload(id, a, EmailOfID(id), 2, "", 2) : id \in {1, 2, seq.users}, a \in BOOLEAN}

UserActivate == UserUpdateWith(ActivationInputs)

NextSessions == Login \/ Validate \/ Refresh \/ UserActivate \/ UserDelete \/ Tick

SpecSessions == InitRatings /\ [][NextSessions]_vars

\* The ledger entries of the token the last call presented.
Presented == {e \in tokens : e.raw = call.token}

C4_TokenKindsAreNotInterchangeable ==
    /\ (call.op = "User.Refresh" /\ \E e \in Presented : e.kind = "access") =>
          ret.err = ErrUnauthorised
    /\ (call.op = "User.Validate" /\ \E e \in Presented : e.kind = "refresh") =>
          ret.err = ErrUnauthorised

C4_Witness ==
    /\ call.op = "User.Refresh"
    /\ ret.err = ErrUnauthorised
    /\ \E e \in Presented :
          /\ e.kind = "access" /\ now <= e.at + jwtAccessDuration
          /\ e.uid \in DOMAIN users /\ users[e.uid].Active

\* The expiry written into the token of a ledger entry.
ExpiryOf(e) ==
    e.at + (IF e.kind = "access" THEN jwtAccessDuration ELSE jwtRefreshDuration)

C20_TokensAcceptedWhileValid ==
    [][(call'.op \in {"User.Validate", "User.Refresh"} /\ now' = now) =>
        \A e \in tokens :
            ( /\ e.raw = call'.token
              /\ e.kind = (IF call'.op = "User.Validate" THEN "access" ELSE "refresh")
              /\ now <= ExpiryOf(e)
              /\ e.uid \in DOMAIN users /\ users[e.uid].Active )
            => ( /\ ret'.err = Nil
                 /\ UserRow(ret'.user) = [users[e.uid] EXCEPT !.Password = Plain("")] )]_vars

\* An access token taken at the minute of its expiry, for a user that has
\* been inactive and is active again.
C20_Witness ==
    /\ call.op = "User.Validate" /\ ret.err = Nil
    /\ \E e \in Presented :
          /\ e.kind = "access" /\ e.lapsed /\ now = ExpiryOf(e) /\ now > e.at
          /\ ret.user.ID = e.uid

(***************************************************************************)
(* The middleware: Authenticated in front of Can(p, h) in front of the     *)
(* handler h of the restricted route.                                      *)
(***************************************************************************)
ErrForbidden ==
    [kind |-> "MiddlewareError", code |-> "forbidden", fields |-> NoFields, wraps |-> ""]

\* a & b on Permissions values.
RECURSIVE BitAnd(_, _)
BitAnd(a, b) ==
    IF a = 0 \/ b = 0 THEN 0
    ELSE (a % 2) * (b % 2) + 2 * BitAnd(a \div 2, b \div 2)

\* viewErr.JSON: the status of the response to err.
viewErrStatus(err) ==
    IF ~IsPublicError(err) THEN 500
    ELSE CASE err.code = "unauthorised" -> 401
           [] err.code = "forbidden" -> 403
           [] err.code = "not_acceptable" -> 406
           [] OTHER -> 400

BearerPrefix == <<"B", "e", "a", "r", "e", "r", " ">>

bearerForm_AnyScheme(tok) == Len(tok) >= 8

\* auth.go:40  the negation of len(tok) < 8 || tok[:7] != "Bearer "
bearerForm(tok) == ~(Len(tok) < 8 \/ SubSeq(tok, 1, 7) # BearerPrefix)

\* Authenticated, up to c.Set and c.Next; ran lists what it called.
Authenticated(tok) ==
    IF ~bearerForm(tok) THEN [user |-> ZeroUser, err |-> ErrUnauthorised, ran |-> {}]
    ELSE [ran |-> {"Validate"}] @@ userServiceValidate(SubSeq(tok, 8, Len(tok)))

hasPermissions_AnyBit(perms, p) == p = 0 \/ BitAnd(perms, p) # 0

\* auth.go:66  the negation of user.Role.Permissions&p != p
hasPermissions(perms, p) == BitAnd(perms, p) = p

\* Can(p, h) for the user Authenticated put in the context.
Can(user, p) ==
    IF ~hasPermissions(user.Role.Permissions, p) THEN [err |-> ErrForbidden, ran |-> {}]
    ELSE [err |-> Nil, ran |-> {"h"}]

\* The Authorization headers a request may carry.
Headers ==
    {<<>>, SubSeq(BearerPrefix, 1, 6), BearerPrefix}
    \cup {BearerPrefix \o tk : tk \in PresentedTokens \ {<<>>}}
    \cup {ToLower(BearerPrefix) \o tk : tk \in Minted}
    \cup {<<"B", "a", "s", "i", "c", " ">> \o tk : tk \in Minted}
    \cup Minted

\* A request to the restricted route: by names the middleware that answered
\* when the handler did not, keys the values set on the context.
Request ==
    \E h \in Headers :
        \E a \in {Authenticated(h)} :
        /\ call' = [op |-> "Request", header |-> h, p |-> route.p]
        /\ IF a.err # Nil
           THEN /\ ret' = [status |-> viewErrStatus(a.err), err |-> a.err,
                           by |-> "Authenticated", keys |-> {}, user |-> ZeroUser]
                /\ fx' = a.ran
           ELSE \E c \in {Can(a.user, route.p)} :
                /\ ret' = [status |-> IF c.err # Nil THEN viewErrStatus(c.err) ELSE 200,
                           err |-> c.err, by |-> IF c.err # Nil THEN "Can" ELSE "h",
                           keys |-> {"user"}, user |-> a.user]
                /\ fx' = a.ran \cup c.ran
        /\ UNCHANGED <<users, roles, ratings, seq, tokens, now, ticks, route>>

\* The web server with one more role, which the ordinary user has, and one
\* restricted route; the role's permissions and the route's are drawn here.
InitGate ==
    /\ users = (1 :> AdminUser) @@ (2 :> [OrdinaryUser EXCEPT !.RoleID = 3])
    /\ \E perms \in 0..AllPermissions :
          roles = DefaultRoles @@ (3 :> [ID |-> 3, Label |-> <<"e", "d", "i", "t">>, Permissions |-> perms])
    /\ ratings = <<>>
    /\ seq = [users |-> 3, ratings |-> 1, roles |-> 4]
    /\ tokens = {}
    /\ now = 0
    /\ ticks = 0
    /\ route \in {[p |-> p] : p \in 0..AllPermissions}
    /\ call = NoCall
    /\ ret = NoRet
    /\ fx = NoFx

NextGate == Login \/ Request

SpecGate == InitGate /\ [][NextGate]_vars

\* The bits set in a Permissions value.
BitsOf(x) == {i \in 0..(PermWidth - 1) : (x \div (2 ^ i)) % 2 = 1}

\* C5: Can(p, h) runs h exactly when every bit of p is set in the role
\* bitmask of the authenticated caller; otherwise h does not run and the
\* answer is forbidden (403), not unauthorised (401).
C5_CanRunsHandlerIffAllBitsHeld ==
    (call.op = "Request" /\ ret.keys = {"user"}) =>
        /\ ("h" \in fx) <=>
              (BitsOf(call.p) \subseteq BitsOf(roles[users[ret.user.ID].RoleID].Permissions))
        /\ ("h" \notin fx) =>
              (ret.status = 403 /\ ret.err = ErrForbidden /\ ret.err # ErrUnauthorised)

C5_Witness ==
    /\ call.op = "Request" /\ ret.keys = {"user"} /\ ret.status = 403 /\ "h" \notin fx
    /\ BitsOf(call.p) \cap BitsOf(ret.user.Role.Permissions) # {}

\* C6: a request whose Authorization header is missing or is not "Bearer "
\* followed by a token is answered unauthorised without Validate being
\* called; and whenever Authenticated answers unauthorised, no handler runs
\* and no "user" value is set on the context.
C6_MalformedHeaderIsUnauthorised ==
    call.op = "Request" =>
        /\ (call.header \notin {BearerPrefix \o tk : tk \in PresentedTokens \ {<<>>}}) =>
              (ret.status = 401 /\ ret.err = ErrUnauthorised /\ "Validate" \notin fx)
        /\ (ret.by = "Authenticated" /\ ret.status = 401) =>
              (fx \subseteq {"Validate"} /\ ret.keys = {})

C6_Witness ==
    /\ call.op = "Request" /\ ret.status = 401 /\ fx = {}
    /\ \E e \in tokens :
          /\ e.kind = "access" /\ call.header = ToLower(BearerPrefix) \o e.raw
          /\ userServiceValidate(e.raw).err = Nil

(***************************************************************************)
(* The wire form of Permissions.  A JSON text is a sequence of tokens:     *)
(* "[", "]", ",", the quotation mark, the content of a string, "null".     *)
(***************************************************************************)
\* permissionsToString, in the order of the bits.
permissionsToString ==
    <<"readUsers", "writeUsers", "readRatings", "writeRatings">>

\* permissionsFromString[e], 0 when the map has no such key.
permissionsFromString(e) ==
    IF \E i \in DOMAIN permissionsToString : permissionsToString[i] = e
    THEN 2 ^ ((CHOOSE i \in DOMAIN permissionsToString : permissionsToString[i] = e) - 1)
    ELSE 0

\* json.Marshal of a []string
RECURSIVE jsonMarshalItems(_)
jsonMarshalItems(sl) ==
    IF sl = <<>> THEN <<>>
    ELSE <<"\"", Head(sl), "\"">>
            \o (IF Len(sl) > 1 THEN <<",">> ELSE <<>>) \o jsonMarshalItems(Tail(sl))

jsonMarshal(sl) == <<"[">> \o jsonMarshalItems(sl) \o <<"]">>

\* The strings between the brackets, or the error of a text that is not a
\* list of strings.
RECURSIVE jsonUnmarshalItems(_, _)
jsonUnmarshalItems(b, acc) ==
    IF Len(b) < 3 \/ b[1] # "\"" \/ b[3] # "\"" \/ b[2] \in {"[", "]", ",", "\""}
    THEN [ok |-> FALSE, pl |-> <<>>]
    ELSE IF Len(b) = 3 THEN [ok |-> TRUE, pl |-> Append(acc, b[2])]
    ELSE IF b[4] # "," THEN [ok |-> FALSE, pl |-> <<>>]
    ELSE jsonUnmarshalItems(SubSeq(b, 5, Len(b)), Append(acc, b[2]))

\* json.Unmarshal into a []string
jsonUnmarshal(b) ==
    IF b = <<"null">> \/ b = <<"[", "]">> THEN [ok |-> TRUE, pl |-> <<>>]
    ELSE IF Len(b) < 2 \/ b[1] # "[" \/ b[Len(b)] # "]" THEN [ok |-> FALSE, pl |-> <<>>]
    ELSE jsonUnmarshalItems(SubSeq(b, 2, Len(b) - 1), <<>>)

\* a | b on Permissions values.
RECURSIVE BitOr(_, _)
BitOr(a, b) ==
    IF a = 0 THEN b
    ELSE IF b = 0 THEN a
    ELSE (IF a % 2 = 1 \/ b % 2 = 1 THEN 1 ELSE 0) + 2 * BitOr(a \div 2, b \div 2)

setPermission_Overwrite(p, ps) == ps

\* *p |= ps
setPermission(p, ps) == BitOr(p, ps)

\* The loop of UnmarshalJSON over the names pl, *p being p.
RECURSIVE unmarshalNames(_, _)
unmarshalNames(p, pl) ==
    IF pl = <<>> THEN [p |-> p, err |-> Nil]
    ELSE IF permissionsFromString(Head(pl)) = 0
    THEN [p |-> p, err |-> wrap("permission does not exist", Nil)]
    ELSE unmarshalNames(setPermission(p, permissionsFromString(Head(pl))), Tail(pl))

\* Permissions.UnmarshalJSON on the receiver *p = p.
PermissionsUnmarshalJSON(p, b) ==
    IF ~jsonUnmarshal(b).ok THEN [p |-> p, err |-> wrap("json", Nil)]
    ELSE unmarshalNames(p, jsonUnmarshal(b).pl)

\* The loop of MarshalJSON from the bit i on; the bits the map does not
\* name are left out.
RECURSIVE marshalNames(_, _)
marshalNames(p, i) ==
    IF 2 ^ (i - 1) > p THEN <<>>
    ELSE (IF BitAnd(p, 2 ^ (i - 1)) # 0 /\ i \in DOMAIN permissionsToString
          THEN <<permissionsToString[i]>> ELSE <<>>)
         \o marshalNames(p, i + 1)

\* Permissions.MarshalJSON
PermissionsMarshalJSON(p) == jsonMarshal(marshalNames(p, 1))

\* The bitmasks encoded: every set of the PermWidth bits and of one bit the
\* application does not name.
Bitmasks == 0..(2 ^ (PermWidth + 1) - 1)

Receivers == {0, 1, 8}

WireTexts ==
    {<<"null">>, <<"[">>, <<"[", "\"", "readUsers", "\"", ",", "]">>,
     <<"[", "\"", "writeRatings", "\"", ",", "\"", "deleteUsers", "\"", "]">>,
     <<"[", "\"", "writeUsers", "\"", ",", "\"", "writeUsers", "\"", "]">>,
     <<"[", "\"", "readRatings", "\"", "\"", "readUsers", "\"", "]">>}

InitPermissions ==
    /\ users = <<>> /\ roles = DefaultRoles /\ ratings = <<>>
    /\ seq = [users |-> 1, ratings |-> 1, roles |-> 3]
    /\ tokens = {} /\ now = 0 /\ ticks = 0 /\ route = NoRoute
    /\ call = NoCall /\ ret = NoRet /\ fx = NoFx

MarshalJSON ==
    \E p \in Bitmasks :
        /\ call' = [op |-> "Permissions.MarshalJSON", p |-> p]
        /\ ret' = [err |-> Nil, json |-> PermissionsMarshalJSON(p)]
        /\ fx' = NoFx
        /\ UNCHANGED <<users, roles, ratings, seq, tokens, now, ticks, route>>

\* UnmarshalJSON of a text received, or of the text the last MarshalJSON
\* made of the bitmask `of`.
UnmarshalJSON ==
    \E into \in Receivers :
        \E in \in {[b |-> w, of |-> -1] : w \in WireTexts}
                  \cup (IF call.op = "Permissions.MarshalJSON"
                        THEN {[b |-> ret.json, of |-> call.p]} ELSE {}) :
            \E r \in {PermissionsUnmarshalJSON(into, in.b)} :
            /\ call' = [op |-> "Permissions.UnmarshalJSON", b |-> in.b, into |-> into,
                        of |-> in.of]
            /\ ret' = [err |-> r.err, p |-> r.p]
            /\ fx' = NoFx
            /\ UNCHANGED <<users, roles, ratings, seq, tokens, now, ticks, route>>

NextPermissions == MarshalJSON \/ UnmarshalJSON

SpecPermissions == InitPermissions /\ [][NextPermissions]_vars

\* C13: for every set of the four recognised flags, decoding into a zero
\* value what MarshalJSON made of the bitmask gives the bitmask back.
C13_PermissionsRoundTrip ==
    ( /\ call.op = "Permissions.UnmarshalJSON" /\ call.into = 0
      /\ call.of \in 0..(2 ^ Len(permissionsToString) - 1) )
    => (ret.err = Nil /\ ret.p = call.of)

C13_Witness ==
    /\ call.op = "Permissions.UnmarshalJSON" /\ call.into = 0 /\ call.of = 10
    /\ call.b = <<"[", "\"", "writeUsers", "\"", ",", "\"", "writeRatings", "\"", "]">>
    /\ ret.p = 10

(***************************************************************************)
(* The role service.                                                       *)
(***************************************************************************)
ErrInUse == ModelError("in_use")

roleCreateFns ==
    <<Step("", "role.idSetToZero"), Step("label", "labelRequired"),
      Step("label", "isNotAdmin"), Step("label", "isNotUser"),
      Step("label", "normaliseLabel"), Step("label", "labelLength")>>

roleUpdateFns ==
    <<Step("", "role.idNotAdmin"), Step("", "idNotUser"), Step("label", "isNotAdmin"),
      Step("label", "isNotUser"), Step("label", "labelRequired"),
      Step("label", "normaliseLabel"), Step("label", "labelLength")>>

roleDeleteFns == <<Step("", "role.idNotAdmin"), Step("", "idNotUser")>>

\* roleGorm.Create: INSERT with the next value of roles_id_seq, which the
\* attempt uses up whether or not the row is stored.
roleGormCreate(r) ==
    IF \E k \in DOMAIN roles : roles[k].Label = r.Label
    THEN [err |-> ValidationError("label" :> "is_duplicate"), roles |-> roles, role |-> r]
    ELSE [err |-> Nil, roles |-> roles @@ (seq.roles :> [r EXCEPT !.ID = seq.roles]),
          role |-> [r EXCEPT !.ID = seq.roles]]

\* roleGorm.Update: UPDATE ... SET every column of r WHERE id = r.ID; with a
\* zero r.ID gorm adds no WHERE and every row is given the one id and label,
\* which two rows or more cannot take: constraint is the one PostgreSQL
\* names in its unique_violation.
roleGormUpdate(r, constraint) ==
    IF r.ID = 0 /\ Cardinality(DOMAIN roles) > 1
    THEN [err |-> IF constraint = "roles_label_key"
                  THEN ValidationError("label" :> "is_duplicate")
                  ELSE wrap("could not update role", Nil),
          roles |-> roles]
    ELSE IF r.ID \notin DOMAIN roles
    THEN [err |-> ErrNotFound, roles |-> roles]
    ELSE IF \E k \in DOMAIN roles \ {r.ID} : roles[k].Label = r.Label
    THEN [err |-> ValidationError("label" :> "is_duplicate"), roles |-> roles]
    ELSE [err |-> Nil, roles |-> [roles EXCEPT ![r.ID] = r]]

\* roleGorm.Delete: DELETE ... WHERE id = id; users.role_id references roles(id).
roleGormDelete(id) ==
    IF id \notin DOMAIN roles THEN [err |-> ErrNotFound, roles |-> roles]
    ELSE IF \E k \in DOMAIN users : users[k].RoleID = id
    THEN [err |-> ErrInUse, roles |-> roles]
    ELSE [err |-> Nil, roles |-> [k \in DOMAIN roles \ {id} |-> roles[k]]]

\* part_009:166-169: after the pipeline p, the repository is written.
roleCreateValidated(p) ==
    IF p.err # Nil THEN [err |-> p.err, roles |-> roles, role |-> p.st.v, writes |-> {}]
    ELSE [writes |-> {"RoleDB.Create"}] @@ roleGormCreate(p.st.v)

\* roleValidator.Create
roleValidatorCreate(role) ==
    roleCreateValidated(runValidationFunctions([v |-> role, cx |-> NoCx], roleCreateFns))

\* part_009:182-185
roleUpdateValidated(p, constraint) ==
    IF p.err # Nil THEN [err |-> p.err, roles |-> roles, role |-> p.st.v, writes |-> {}]
    ELSE [role |-> p.st.v, writes |-> {"RoleDB.Update"}]
            @@ roleGormUpdate(p.st.v, constraint)

\* roleValidator.Update
roleValidatorUpdate(role, constraint) ==
    roleUpdateValidated(
        runValidationFunctions([v |-> role, cx |-> NoCx], roleUpdateFns), constraint)

\* part_009:193-197
roleDeleteValidated(p, id) ==
    IF p.err # Nil THEN [err |-> p.err, roles |-> roles, writes |-> {}]
    ELSE [writes |-> {"RoleDB.Delete"}] @@ roleGormDelete(id)

\* roleValidator.Delete
roleValidatorDelete(id) ==
    roleDeleteValidated(
        runValidationFunctions([v |-> [ID |-> id, Label |-> <<>>, Permissions |-> 0],
                                cx |-> NoCx], roleDeleteFns),
        id)

MaxRoleID == 4

Labels ==
    {<<>>, <<"a", "d", "m", "i", "n">>, <<"A", "d", "m", "i", "n">>, <<"u", "s", "e", "r">>,
     <<"e", "d">>, <<"e", "d", "i", "t">>, <<" ", "N", "e", "w", " ", " ", "r", " ">>}

RoleInputs ==
    {[ID |-> id, Label |-> l, Permissions |-> perms] :
        id \in 0..MaxRoleID, l \in Labels, perms \in {0, AllPermissions}}

RoleCreate ==
    /\ seq.roles <= MaxRoleID
    /\ \E role \in RoleInputs :
        \E r \in {roleValidatorCreate(role)} :
        /\ call' = [op |-> "Role.Create", id |-> role.ID, role |-> role]
        /\ ret' = [err |-> r.err, role |-> r.role]
        /\ fx' = r.writes
        /\ roles' = r.roles
        /\ seq' = [seq EXCEPT !.roles = IF r.writes = {} THEN @ ELSE @ + 1]
        /\ UNCHANGED <<users, ratings, tokens, now, ticks, route>>

RoleUpdateWith(inputs) ==
    \E role \in inputs :
      \E constraint \in IF role.ID = 0 THEN {"roles_pkey", "roles_label_key"} ELSE {"none"} :
        \E r \in {roleValidatorUpdate(role, constraint)} :
        /\ call' = [op |-> "Role.Update", id |-> role.ID, role |-> role]
        /\ ret' = [err |-> r.err, role |-> r.role]
        /\ fx' = r.writes
        /\ roles' = r.roles
        /\ UNCHANGED <<users, ratings, seq, tokens, now, ticks, route>>

RoleUpdate == RoleUpdateWith(RoleInputs)

RoleDelete ==
    \E id \in 0..MaxRoleID :
        \E r \in {roleValidatorDelete(id)} :
        /\ call' = [op |-> "Role.Delete", id |-> id]
        /\ ret' = [err |-> r.err]
        /\ fx' = r.writes
        /\ roles' = r.roles
        /\ UNCHANGED <<users, ratings, seq, tokens, now, ticks, route>>

\* The two fixed roles, a third role that the ordinary user has, and the
\* fixed admin user.
InitRoles ==
    /\ roles = DefaultRoles
                @@ (3 :> [ID |-> 3, Label |-> <<"e", "d", "i", "t">>, Permissions |-> 5])
    /\ users = (1 :> AdminUser) @@ (2 :> [OrdinaryUser EXCEPT !.RoleID = 3])
    /\ ratings = <<>>
    /\ seq = [users |-> 3, ratings |-> 1, roles |-> 4]
    /\ tokens = {} /\ now = 0 /\ ticks = 0 /\ route = NoRoute
    /\ call = NoCall /\ ret = NoRet /\ fx = NoFx

NextRoles == RoleCreate \/ RoleUpdate \/ RoleDelete

SpecRoles == InitRoles /\ [][NextRoles]_vars

\* C14: a role Update or Delete that targets id 1 or 2 returns ErrReadOnly
\* whatever it carries and writes nothing, so role 1 stays "admin" with every
\* bit set and role 2 stays "user" with no bit, and both stay stored.
C14_FixedRolesAreReadOnly ==
    /\ (call.op \in {"Role.Update", "Role.Delete"} /\ call.id \in {1, 2})
          => (ret.err = ErrReadOnly /\ fx = {})
    /\ {1, 2} \subseteq DOMAIN roles
    /\ roles[1] = DefaultRoles[1] /\ roles[2] = DefaultRoles[2]

C14_Witness ==
    /\ call.op = "Role.Update" /\ call.id = 1 /\ ret.err = ErrReadOnly
    /\ call.role.Label = <<" ", "N", "e", "w", " ", " ", "r", " ">>
    /\ call.role.Permissions = 0
    /\ \E k \in DOMAIN roles : roles[k].Label = <<"n", "e", "w", " ", "r">>

\* C30: a role Create or Update whose label, once lower-cased, trimmed and
\* with its inner white space collapsed, is "admin" or "user" does not reach
\* the repository: the validator rejects it, with label: is_duplicate (or
\* with read-only when the Update names a fixed role).
C30_FixedLabelsStopAtValidator ==
    (/\ call.op \in {"Role.Create", "Role.Update"}
     /\ joinFields(TrimSpace(ToLower(call.role.Label)))
            \in {<<"a", "d", "m", "i", "n">>, <<"u", "s", "e", "r">>}) =>
        /\ fx = NoFx
        /\ \/ ret.err = ValidationError("label" :> "is_duplicate")
           \/ (call.op = "Role.Update" /\ call.id \in {1, 2} /\ ret.err = ErrReadOnly)

(***************************************************************************)
(* Two Create calls in flight.  A call is at "start", then "validated"     *)
(* once its pipeline has run (its look-ups made), then "done" once the     *)
(* INSERT has been answered; the storage takes one statement at a time.    *)
(* call, ret and fx are here functions of the process.                     *)
(***************************************************************************)
userCreateFns ==
    <<Step("", "user.idSetToZero"), Step("firstName", "firstNameRequired"),
      Step("firstName", "firstNameLength"), Step("settings", "settingsLength"),
      Step("password", "passwordRequired"), Step("password", "passwordLength"),
      Step("", "passwordHash"), Step("email", "emailRequired"),
      Step("email", "normaliseEmail"), Step("email", "emailFormat"),
      Step("email", "uv.emailIsTaken"), Step("roleId", "roleIDExists")>>

Procs == {1, 2}

\* The pipeline of the Create of op, run on the input in.
validateCreate(op, in) ==
    runValidationFunctions([v |-> in, cx |-> NoCx],
        CASE op = "User.Create" -> userCreateFns
          [] op = "Role.Create" -> roleCreateFns
          [] op = "Rating.Create" -> ratingCreateFns)

\* The answer w of the INSERT, and the three tables after it.
storageAfter(w) ==
    [err |-> w.err,
     users |-> IF "users" \in DOMAIN w THEN w.users ELSE users,
     roles |-> IF "roles" \in DOMAIN w THEN w.roles ELSE roles,
     ratings |-> IF "ratings" \in DOMAIN w THEN w.ratings ELSE ratings]

\* UserDB.Create, RoleDB.Create, RatingDB.Create of the validated value v.
insertCreate(op, v) ==
    storageAfter(CASE op = "User.Create" -> userGormCreate(v)
                   [] op = "Role.Create" -> roleGormCreate(v)
                   [] op = "Rating.Create" -> ratingGormCreate(v))

SeqOf(op) ==
    CASE op = "User.Create" -> "users"
      [] op = "Role.Create" -> "roles"
      [] op = "Rating.Create" -> "ratings"

\* The unique key a Create input names, and the field it is reported under.
KeyOf(op, in) ==
    CASE op = "User.Create" -> TrimSpace(ToLower(in.Email))
      [] op = "Role.Create" -> joinFields(TrimSpace(ToLower(in.Label)))
      [] op = "Rating.Create" -> <<in.User.ID, in.Target>>

KeyField(op) ==
    CASE op = "User.Create" -> "email"
      [] op = "Role.Create" -> "label"
      [] op = "Rating.Create" -> "target"

StoredKeys(op) ==
    CASE op = "User.Create" -> {users[k].Email : k \in DOMAIN users}
      [] op = "Role.Create" -> {roles[k].Label : k \in DOMAIN roles}
      [] op = "Rating.Create" -> {<<ratings[k].UserID, ratings[k].Target>> : k \in DOMAIN ratings}

ConcurrentInputs(op) ==
    CASE op = "User.Create" ->
            {UserPayload(id, TRUE, e, 2, "password1", 2) :
                id \in {0, 2},
                e \in {<<"w", "@", "b", ".", "c", "d">>, <<" ", "W", "@", "b", ".", "C", "d">>,
                       <<"x", "@", "b", ".", "c", "d">>, UserEmail}}
      [] op = "Role.Create" ->
            {[ID |-> 0, Label |-> l, Permissions |-> perms] :
                perms \in {0, 5},
                l \in {<<"m", "o", "d", "s">>, <<" ", "M", "o", "d", "s">>,
                       <<"t", "e", "a", "m">>, <<"A", "d", "m", "i", "n">>}}
      [] op = "Rating.Create" ->
            {[Payload(0, 0, 7, t, u) EXCEPT !.User = who] :
                t \in {1, 2}, u \in {0, 1}, who \in {Caller(1, 1), Caller(2, 2)}}

\* The storage of InitRatings with one rating stored, and one Create of the
\* same kind in each process.
InitConcurrent ==
    /\ users = (1 :> AdminUser) @@ (2 :> OrdinaryUser)
    /\ roles = DefaultRoles
    /\ ratings = (1 :> [Payload(1, 0, 7, 2, 1) EXCEPT !.Date = 0])
    /\ seq = [users |-> 3, ratings |-> 2, roles |-> 3]
    /\ tokens = {} /\ now = 0 /\ ticks = 0 /\ route = NoRoute
    /\ \E op \in {"User.Create", "Role.Create", "Rating.Create"} :
         \E in \in [Procs -> ConcurrentInputs(op)] :
            call = [p \in Procs |->
                       [op |-> op, in |-> in[p], pc |-> "start", v |-> in[p],
                        fresh |-> KeyOf(op, in[p]) \notin StoredKeys(op)]]
    /\ ret = [p \in Procs |-> NoRet]
    /\ fx = [p \in Procs |-> NoFx]

\* The first half of a Create: the validation pipeline.
CreateValidate(p) ==
    /\ call[p].pc = "start"
    /\ \E r \in {validateCreate(call[p].op, call[p].in)} :
        /\ call' = [call EXCEPT ![p].pc = IF r.err # Nil THEN "done" ELSE "validated",
                                ![p].v = r.st.v]
        /\ ret' = [ret EXCEPT ![p] = [err |-> r.err]]
    /\ UNCHANGED <<users, roles, ratings, seq, tokens, now, ticks, route, fx>>

\* The second half: the call of the repository, which is one INSERT.
CreateInsert(p) ==
    /\ call[p].pc = "validated"
    /\ \E w \in {insertCreate(call[p].op, call[p].v)} :
        /\ call' = [call EXCEPT ![p].pc = "done"]
        /\ ret' = [ret EXCEPT ![p] = [err |-> w.err]]
        /\ fx' = [fx EXCEPT ![p] = {"Create"}]
        /\ users' = w.users /\ roles' = w.roles /\ ratings' = w.ratings
        /\ seq' = [seq EXCEPT ![SeqOf(call[p].op)] = @ + 1]
    /\ UNCHANGED <<tokens, now, ticks, route>>

NextConcurrent == \E p \in Procs : CreateValidate(p) \/ CreateInsert(p)

SpecConcurrent == InitConcurrent /\ [][NextConcurrent]_vars

IsDuplicate(err, field) ==
    /\ err.kind = "ValidationError"
    /\ field \in DOMAIN err.fields /\ err.fields[field] = "is_duplicate"

\* C17: when two Create calls that name the same unique key (an email once
\* normalised, a role label once normalised, a caller and target), a key no
\* stored row has, have both returned, one has succeeded and the other has
\* failed with a duplicate error, in whichever order their steps were taken.
C17_OneOfTwoCreatesSucceeds ==
    ( /\ \A p \in Procs : call[p].pc = "done"
      /\ KeyOf(call[1].op, call[1].in) = KeyOf(call[2].op, call[2].in)
      /\ call[1].fresh )
    => \E p \in Procs : \E q \in Procs \ {p} :
          /\ ret[p].err = Nil
          /\ IsDuplicate(ret[q].err, KeyField(call[q].op))

\* Both look-ups were made before either INSERT, and the index decided.
C17_Witness ==
    /\ \A p \in Procs : call[p].pc = "done" /\ fx[p] = {"Create"}
    /\ call[1].op = "User.Create"
    /\ call[1].in.Email # call[2].in.Email
    /\ KeyOf(call[1].op, call[1].in) = KeyOf(call[2].op, call[2].in)
    /\ ret[2].err = Nil /\ IsDuplicate(ret[1].err, "email")

(***************************************************************************)
(* One call of a validator on a stored state: every Create, Update and     *)
(* Delete of the three services, each started on one of the storage states *)
(* of InitWrites.                                                          *)
(***************************************************************************)
\* users.go:440-464
createValidated(p) ==
    IF p.err # Nil
    THEN [err |-> p.err, users |-> users, user |-> [p.st.v EXCEPT !.Password = Plain("")],
          writes |-> {}]
    ELSE [user |-> [p.st.v EXCEPT !.Password = Plain("")], writes |-> {"UserDB.Create"}]
            @@ userGormCreate(p.st.v)

userValidatorCreate(u) ==
    createValidated(runValidationFunctions([v |-> u, cx |-> NoCx], userCreateFns))

UserCreateInputs ==
    {UserPayload(id, TRUE, e, 2, pw, rid) :
        id \in {0, 2},
        e \in {<<"w", "@", "b", ".", "c", "d">>, <<" ", "W", "@", "b", ".", "C", "d">>, UserEmail},
        pw \in {"", "short", "password1"},
        rid \in {2, 9}}

UserCreate ==
    /\ seq.users <= MaxUserID
    /\ \E u \in UserCreateInputs :
        \E r \in {userValidatorCreate(u)} :
        /\ call' = [op |-> "User.Create", id |-> u.ID, user |-> u]
        /\ ret' = [err |-> r.err, user |-> r.user]
        /\ fx' = r.writes
        /\ users' = r.users
        /\ seq' = [seq EXCEPT !.users = IF r.writes = {} THEN @ ELSE @ + 1]
        /\ UNCHANGED <<roles, ratings, tokens, now, ticks, route>>

\* The tables a call starts on: the fixed roles and a third one, the admin,
\* a user with the user role or the third role, an inactive user, and none,
\* one or two ratings.
WritesRatings ==
    LoginRatings
        \cup {<<[ZeroRating EXCEPT !.ID = 1, !.Score = 7, !.Target = 1, !.UserID = 2],
                [ZeroRating EXCEPT !.ID = 2, !.Score = 7, !.Target = 2, !.UserID = 1]>>}

InitWrites ==
    /\ roles = DefaultRoles
                @@ (3 :> [ID |-> 3, Label |-> <<"e", "d", "i", "t">>, Permissions |-> 5])
    /\ \E rid \in {2, 3} :
         users = (1 :> AdminUser) @@ (2 :> [OrdinaryUser EXCEPT !.RoleID = rid])
                    @@ (3 :> InactiveUser)
    /\ ratings \in WritesRatings
    /\ seq = [users |-> 4, ratings |-> Len(ratings) + 1, roles |-> 4]
    /\ tokens = {} /\ now = 0 /\ ticks = 0 /\ route = NoRoute
    /\ call = NoCall /\ ret = NoRet /\ fx = NoFx

NextWrites ==
    \/ call = NoCall /\ UserCreate
    \/ call = NoCall /\ UserUpdate
    \/ call = NoCall /\ UserDelete
    \/ call = NoCall /\ RoleCreate
    \/ call = NoCall /\ RoleUpdate
    \/ call = NoCall /\ RoleDelete
    \/ call = NoCall /\ RatingCreate
    \/ call = NoCall /\ RatingUpdate
    \/ call = NoCall /\ RatingDelete

SpecWrites == InitWrites /\ [][NextWrites]_vars

\* The validation pipeline of the call c, run on the tables as they are.
pipelineOf(c) ==
    CASE c.op = "User.Create" ->
            runValidationFunctions([v |-> c.user, cx |-> NoCx], userCreateFns)
      [] c.op = "User.Update" ->
            runValidationFunctions([v |-> c.user, cx |-> NoCx], userUpdateFns)
      [] c.op = "User.Delete" ->
            runValidationFunctions([v |-> [ZeroUser EXCEPT !.ID = c.id], cx |-> NoCx],
                                   userDeleteFns)
      [] c.op = "Role.Create" ->
            runValidationFunctions([v |-> c.role, cx |-> NoCx], roleCreateFns)
      [] c.op = "Role.Update" ->
            runValidationFunctions([v |-> c.role, cx |-> NoCx], roleUpdateFns)
      [] c.op = "Role.Delete" ->
            runValidationFunctions([v |-> [ID |-> c.id, Label |-> <<>>, Permissions |-> 0],
                                    cx |-> NoCx], roleDeleteFns)
      [] c.op = "Rating.Create" ->
            runValidationFunctions([v |-> c.in, cx |-> NoCx], ratingCreateFns)
      [] c.op = "Rating.Update" ->
            runValidationFunctions([v |-> c.in, cx |-> NoCx], ratingUpdateFns)
      [] c.op = "Rating.Delete" ->
            runValidationFunctions([v |-> c.in, cx |-> NoCx], ratingDeleteFns)

\* The repository method behind each validator operation.
RepositoryOf(op) ==
    CASE op = "User.Create" -> "UserDB.Create"
      [] op = "User.Update" -> "UserDB.Update"
      [] op = "User.Delete" -> "UserDB.Delete"
      [] op = "Role.Create" -> "RoleDB.Create"
      [] op = "Role.Update" -> "RoleDB.Update"
      [] op = "Role.Delete" -> "RoleDB.Delete"
      [] op = "Rating.Create" -> "RatingDB.Create"
      [] op = "Rating.Update" -> "RatingDB.Update"
      [] op = "Rating.Delete" -> "RatingDB.Delete"

\* What a call whose pipeline has returned p does to the repository.
WriteFollows(p) ==
    /\ p.err # Nil =>
          /\ fx' = NoFx
          /\ ret'.err = p.err
          /\ users' = users /\ roles' = roles /\ ratings' = ratings /\ seq' = seq
    /\ p.err = Nil => fx' = {RepositoryOf(call'.op)}

\* C26: in every Create, Update and Delete of the user, role and rating
\* validators the repository method of the operation is called when the
\* pipeline has returned no error, and it is the only call made; when the
\* pipeline has returned an error, that error is returned, no repository
\* method is called and the tables are as they were.
C26_WriteOnlyAfterValidPipeline ==
    [][call'.op # "none" => WriteFollows(pipelineOf(call'))]_vars

\* A user Update whose pipeline failed on a field and wrote nothing, on
\* tables that hold a rating.
C26_Witness ==
    /\ call.op = "User.Update" /\ call.user.Password = Plain("short")
    /\ ret.err = ValidationError("password" :> "too_short")
    /\ fx = NoFx /\ ratings # <<>>

\* The password of the record that a user Create or Update hands to the
\* repository, p being the outcome of its pipeline.
WritesHash(p) ==
    /\ p.st.v.Password.bcrypt
    /\ p.st.v.Password =
            IF call'.user.Password = Plain("")
            THEN users[call'.id].Password
            ELSE bcryptHash(call'.user.Password.text)
    /\ ret'.err = Nil =>
            \E id \in DOMAIN users' :
                /\ id = IF call'.op = "User.Create" THEN seq.users ELSE call'.id
                /\ users'[id].Password = p.st.v.Password

\* C27: whenever a user Create or Update reaches the repository, the
\* password of the record written is a bcrypt hash: that of the password in
\* the request, or the stored one when the request carried none; it is never
\* the plaintext.
C27_RepositoryGetsHash ==
    [][(call'.op \in {"User.Create", "User.Update"} /\ fx' # NoFx) =>
            WritesHash(pipelineOf(call'))]_vars

\* A user has been created with the password "password1".
C27_Witness ==
    /\ call.op = "User.Create" /\ fx = {"UserDB.Create"} /\ ret.err = Nil
    /\ call.user.Password = Plain("password1")
    /\ 4 \in DOMAIN users /\ users[4].Password = bcryptHash("password1")

(***************************************************************************)
(* Two Updates of users at once.  userValidator.Update reads the stored    *)
(* record in its pipeline and calls UserDB.Update afterwards; no lock or   *)
(* transaction spans the two, so the calls of another request may fall     *)
(* between them.                                                           *)
(***************************************************************************)
UpdatesInputs ==
    {UserPayload(id, TRUE, EmailOfID(id), first, pw, 2) :
        id \in {1, 2}, first \in {2, 3}, pw \in {"", "password2", "password3"}}

InitUpdates ==
    /\ users = (1 :> AdminUser) @@ (2 :> OrdinaryUser)
    /\ roles = DefaultRoles
    /\ ratings = <<>>
    /\ seq = [users |-> 3, ratings |-> 1, roles |-> 3]
    /\ tokens = {} /\ now = 0 /\ ticks = 0 /\ route = NoRoute
    /\ \E in \in [Procs -> UpdatesInputs] :
         call = [p \in Procs |->
                    [op |-> "User.Update", in |-> in[p], pc |-> "start", v |-> in[p]]]
    /\ ret = [p \in Procs |-> NoRet]
    /\ fx = [p \in Procs |-> NoFx]

\* users.go:467-485: the pipeline, with its reads of the users table.
UpdateValidate(p) ==
    /\ call[p].pc = "start"
    /\ \E r \in {runValidationFunctions([v |-> call[p].in, cx |-> NoCx], userUpdateFns)} :
        /\ call' = [call EXCEPT ![p].pc = IF r.err # Nil THEN "done" ELSE "validated",
                                ![p].v = r.st.v]
        /\ ret' = [ret EXCEPT ![p] = [err |-> r.err]]
    /\ UNCHANGED <<users, roles, ratings, seq, tokens, now, ticks, route, fx>>

\* users.go:491: UserDB.Update, one UPDATE of every column.
UpdateWrite(p) ==
    /\ call[p].pc = "validated"
    /\ \E w \in {userGormUpdate(call[p].v)} :
        /\ call' = [call EXCEPT ![p].pc = "done"]
        /\ ret' = [ret EXCEPT ![p] = [err |-> w.err]]
        /\ fx' = [fx EXCEPT ![p] = {"UserDB.Update"}]
        /\ users' = w.users
        /\ tokens' = Lapse(tokens, w.users)
    /\ UNCHANGED <<roles, ratings, seq, now, ticks, route>>

NextUpdates == \E p \in Procs : UpdateValidate(p) \/ UpdateWrite(p)

SpecUpdates == InitUpdates /\ [][NextUpdates]_vars

\* C28: when an Update of a user that carries no password and an Update of
\* the same user that carries a new password have both succeeded, in
\* whichever order their steps were taken, the stored hash is the hash of
\* the new password.
C28_EmptyPasswordUpdateKeepsNewHash ==
    \A p, q \in Procs :
        (/\ call[p].pc = "done" /\ call[q].pc = "done"
         /\ ret[p].err = Nil /\ ret[q].err = Nil
         /\ call[p].in.ID = call[q].in.ID
         /\ call[p].in.Password = Plain("")
         /\ call[q].in.Password # Plain("")) =>
            users[call[q].in.ID].Password = bcryptHash(call[q].in.Password.text)

(***************************************************************************)
(* The restricted route while roles and role assignments change: a token   *)
(* is minted at Login, the third role's permissions or the user's role are *)
(* updated, and the token is presented afterwards.                         *)
(***************************************************************************)
PermissionsInputs ==
    {[ID |-> 3, Label |-> <<"e", "d", "i", "t">>, Permissions |-> perms] : perms \in {0, 5}}

RolePermissionsChange == RoleUpdateWith(PermissionsInputs)

RoleIDInputs == {UserPayload(2, TRUE, UserEmail, 2, "", rid) : rid \in {2, 3}}

UserRoleChange == UserUpdateWith(RoleIDInputs)

InitRegate ==
    /\ users = (1 :> AdminUser) @@ (2 :> [OrdinaryUser EXCEPT !.RoleID = 3])
    /\ \E perms \in {0, 5} :
          roles = DefaultRoles @@ (3 :> [ID |-> 3, Label |-> <<"e", "d", "i", "t">>, Permissions |-> perms])
    /\ ratings = <<>>
    /\ seq = [users |-> 3, ratings |-> 1, roles |-> 4]
    /\ tokens = {} /\ now = 0 /\ ticks = 0
    /\ route \in {[p |-> p] : p \in {1, 5}}
    /\ call = NoCall /\ ret = NoRet /\ fx = NoFx

NextRegate == Login \/ Request \/ RolePermissionsChange \/ UserRoleChange

SpecRegate == InitRegate /\ [][NextRegate]_vars

\* The roleId claim inside a minted token.
RoleClaim(raw) == ParseSigned(raw).cl.RoleID

\* C29: a request that presents a valid access token of a stored user is
\* gated by the role the user has and the permissions that role has when the
\* request is made, whatever they were when the token was minted and whatever
\* roleId the token carries: the handler runs exactly when the stored role
\* holds every bit of the route's permissions, and otherwise the answer is
\* forbidden.
C29_StoredRoleGatesRequest ==
    \A e \in tokens :
        (/\ call.op = "Request"
         /\ e.kind = "access"
         /\ call.header = BearerPrefix \o e.raw
         /\ ret.by # "Authenticated") =>
            /\ e.uid \in DOMAIN users
            /\ ret.user.ID = e.uid
            /\ ret.user.RoleID = users[e.uid].RoleID
            /\ ret.user.Role.Permissions = roles[users[e.uid].RoleID].Permissions
            /\ ("h" \in fx) <=>
                    (BitsOf(call.p) \subseteq BitsOf(roles[users[e.uid].RoleID].Permissions))
            /\ ("h" \notin fx) => ret.status = 403

\* User 2 holds a token minted while they had role 3; they have since been
\* moved to role 2, and the request with that token is forbidden although
\* role 3, which the token names, holds the route's permissions.
C29_Witness ==
    /\ call.op = "Request" /\ ret.status = 403 /\ ret.by = "Can"
    /\ \E e \in tokens :
          /\ e.kind = "access" /\ e.uid = 2 /\ call.header = BearerPrefix \o e.raw
          /\ RoleClaim(e.raw) = 3
          /\ users[2].RoleID = 2
          /\ BitsOf(call.p) \subseteq BitsOf(roles[3].Permissions)

====
